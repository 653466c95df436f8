--------------------------- MODULE DialogueProofs ---------------------------
(***************************************************************************)
(* Theorems about Dialogue for any catalogs, sentences and rooms, and any  *)
(* planner that keeps PlannerAssumption.                                   *)
(***************************************************************************)
EXTENDS Dialogue, FiniteSetTheorems, SequenceTheorems, WellFoundedInduction, TLAPS

-----------------------------------------------------------------------------
(* The helpers on phrases and sets.                                        *)

\* A nonempty set of natural numbers has a least element, its Min.
LEMMA MinIs ==
  ASSUME NEW T \in SUBSET Nat, T # {}
  PROVE  Min(T) \in T
<1>. DEFINE R == {ss \in Nat \X Nat : ss[1] < ss[2]}
<1>1. IsWellFoundedOn(R, Nat)
  BY NatLessThanWellFounded DEF OpToRel
<1>2. \A x, y \in Nat : x < y => <<x, y>> \in R
  OBVIOUS
<1>. HIDE DEF R
<1>3. PICK x \in T : \A y \in T : ~ (<<y, x>> \in R)
  BY <1>1, WFMin
<1>4. \A y \in T : ~ (y < x)
  BY <1>2, <1>3
<1>5. \A y \in T : x <= y
  BY <1>4
<1>. QED
  BY <1>5 DEF Min

\* The first of a list of patterns gives the result of one that matches.
LEMMA FirstOfIs ==
  ASSUME NEW rules, DOMAIN rules \subseteq Nat, NEW otherwise
  PROVE  \/ FirstOf(rules, otherwise) = otherwise
         \/ \E i \in DOMAIN rules :
              rules[i][1] /\ FirstOf(rules, otherwise) = rules[i][2]
<1>. DEFINE hits == {i \in DOMAIN rules : rules[i][1]}
<1>1. CASE hits = {}
  BY <1>1 DEF FirstOf
<1>2. CASE hits # {}
  <2>1. Min(hits) \in hits
    BY <1>2, MinIs
  <2>. QED
    BY <1>2, <2>1 DEF FirstOf
<1>. QED
  BY <1>1, <1>2

\* A set of one element.
LEMMA OneElement ==
  ASSUME NEW x
  PROVE  Cardinality({x}) = 1
  BY FS_Singleton

-----------------------------------------------------------------------------
(* Plans.                                                                  *)

\* The entities of any catalog.
Known == UNION {Ids(Catalogs[c].entities) : c \in Published}

\* A plan that is well formed.
GoodPlan(plan) ==
  /\ plan.kind \in PlanKinds
  /\ plan.clauses \in Seq(SUBSET StepsOf(plan))
  /\ plan.kind = "steps" => plan.clauses # <<>>
  /\ \A s \in StepsOf(plan) : IsStep(s) /\ s.ids \subseteq Known

\* A step is one of the kind, if it has an intent.
LEMMA StepIs ==
  ASSUME NEW intent, intent # None, NEW ids, NEW call, NEW operation
  PROVE  /\ IsStep(Step(intent, ids, call, operation))
         /\ Step(intent, ids, call, operation).intent = intent
         /\ Step(intent, ids, call, operation).ids = ids
  BY DEF Step, IsStep

\* What the planner returns is well formed.
LEMMA PlannedIs ==
  ASSUME NEW c \in Published, NEW text \in Texts, NEW area \in Origins
  PROVE  LET plan == PlanOf[c][text][area]
         IN  GoodPlan(plan) /\ (plan.candidates # {} => plan.asked.intent # None)
<1>. DEFINE plan == PlanFor(Catalogs[c], text, area)
<1>1. PlanOf[c][text][area] = plan
  BY DEF PlanOf
<1>2. Ids(Catalogs[c].entities) \subseteq Known
  BY DEF Known
<1>. QED
  BY <1>1, <1>2, PlannerAssumption DEF GoodPlan

\* A plan of one step.
LEMMA OneStep ==
  ASSUME NEW s
  PROVE  LET plan == Steps(<<{s}>>)
         IN  /\ StepsOf(plan) = {s} /\ IdsOf(plan) = s.ids
             /\ IsStep(s) /\ s.ids \subseteq Known => GoodPlan(plan)
<1>. DEFINE plan == Steps(<<{s}>>)
<1>1. plan.clauses = <<{s}>> /\ plan.kind = "steps"
  BY DEF Steps, Plan
<1>2. ToSet(<<{s}>>) = {{s}}
  BY DEF ToSet
<1>3. StepsOf(plan) = {s}
  BY <1>1, <1>2 DEF StepsOf
<1>4. IdsOf(plan) = s.ids
  BY <1>3 DEF IdsOf
<1>5. plan.clauses \in Seq(SUBSET StepsOf(plan)) /\ plan.clauses # <<>>
  <2>. DEFINE S == SUBSET {s}
              x == {s}
  <2>1. x \in S
    OBVIOUS
  <2>. HIDE DEF S, x
  <2>2. <<x>> \in Seq(S) /\ <<x>> # <<>>
    BY <2>1
  <2>. QED
    BY <1>1, <1>3, <2>2 DEF S, x
<1>. HIDE DEF plan
<1>6. IsStep(s) /\ s.ids \subseteq Known => GoodPlan(plan)
  BY <1>1, <1>3, <1>5 DEF GoodPlan, PlanKinds
<1>. QED
  BY <1>3, <1>4, <1>6 DEF plan

\* A plan without steps.
LEMMA NoStep ==
  ASSUME NEW why \in PlanKinds \ {"steps"}
  PROVE  GoodPlan(NoPlan(why)) /\ StepsOf(NoPlan(why)) = {} /\ NoPlan(why).kind = why
<1>. DEFINE plan == NoPlan(why)
<1>1. plan.clauses = <<>> /\ plan.kind = why
  BY DEF NoPlan, Plan
<1>2. StepsOf(plan) = {}
  BY <1>1 DEF StepsOf, ToSet
<1>3. plan.clauses \in Seq(SUBSET StepsOf(plan))
  BY <1>1, EmptySeq
<1>. QED
  BY <1>1, <1>2, <1>3 DEF GoodPlan

\* A setting has an intent in the domains that have one.
LEMMA SetterIs ==
  ASSUME NEW domain \in SettableDomains, NEW number
  PROVE  Setter(domain, number).intent # None
  BY DEF Setter, SettableDomains, Operation, None

\* A follow-up is a step for what it follows.
LEMMA RelativeIs ==
  ASSUME NEW text, NEW plan \in RelativePlans(text, focus, referent)
  PROVE  \E s : plan = Steps(<<{s}>>) /\ IsStep(s) /\ s.ids = focus
<1>. DEFINE domains == {e.domain : e \in Offered(focus)}
            number == SpokenNumber(text)
            power == RelativePower(text, domains)
            kept == Operation(referent.intent, None, referent.slot, referent.number)
            one(intent, operation) == Steps(<<{Step(intent, focus, referent.call, operation)}>>)
<1>1. \/ \E d \in SettableDomains : plan = one(Setter(d, number).intent, Setter(d, number))
      \/ \E intent \in PowerIntents \cup ({power} \ {None}) : plan = one(intent, kept)
  BY DEF RelativePlans
<1>. HIDE DEF number, power, kept
<1>2. CASE \E d \in SettableDomains : plan = one(Setter(d, number).intent, Setter(d, number))
  <2>. PICK d \in SettableDomains : plan = one(Setter(d, number).intent, Setter(d, number))
    BY <1>2
  <2>. DEFINE s == Step(Setter(d, number).intent, focus, referent.call, Setter(d, number))
  <2>1. IsStep(s) /\ s.ids = focus
    BY SetterIs, StepIs
  <2>2. plan = Steps(<<{s}>>)
    OBVIOUS
  <2>. HIDE DEF s
  <2>. QED
    BY <2>1, <2>2
<1>3. CASE \E intent \in PowerIntents \cup ({power} \ {None}) : plan = one(intent, kept)
  <2>. PICK intent \in PowerIntents \cup ({power} \ {None}) : plan = one(intent, kept)
    BY <1>3
  <2>1. intent # None
    BY DEF PowerIntents, None
  <2>. DEFINE s == Step(intent, focus, referent.call, kept)
  <2>2. IsStep(s) /\ s.ids = focus
    BY <2>1, StepIs
  <2>3. plan = Steps(<<{s}>>)
    OBVIOUS
  <2>. HIDE DEF s
  <2>. QED
    BY <2>2, <2>3
<1>. QED
  BY <1>1, <1>2, <1>3

\* What fits best is offered.
LEMMA BestMatchIs ==
  ASSUME NEW text, NEW ids
  PROVE  \A e \in BestMatch(text, ids) : e \in Offered(ids) /\ e.id \in ids
  BY DEF BestMatch, Offered, ById

\* A remark that narrows names one of the group.
LEMMA QualifierIs ==
  ASSUME NEW text, NEW ids, NEW last, last.intent # None \/ ids = {},
         NEW plan \in QualifierPlans(text, ids, last)
  PROVE  \E s : plan = Steps(<<{s}>>) /\ IsStep(s) /\ \E i \in ids : s.ids = {i}
<1>1. Cardinality(ids) > 1
  BY DEF QualifierPlans
<1>2. ids # {}
  BY <1>1, FS_EmptySet
<1>3. PICK e \in BestMatch(text, ids) :
        plan = Steps(<<{Step(last.intent, {e.id}, [NoCall EXCEPT !.name = e.name],
                             Operation(last.intent, None, last.slot, last.number))}>>)
  BY <1>1 DEF QualifierPlans
<1>4. e.id \in ids
  BY BestMatchIs
<1>. DEFINE s == Step(last.intent, {e.id}, [NoCall EXCEPT !.name = e.name],
                      Operation(last.intent, None, last.slot, last.number))
<1>5. IsStep(s) /\ s.ids = {e.id}
  BY <1>2, StepIs
<1>6. plan = Steps(<<{s}>>)
  BY <1>3
<1>. HIDE DEF s
<1>. QED
  BY <1>4, <1>5, <1>6

-----------------------------------------------------------------------------
(* Questions.                                                              *)

\* What is offered is known.
LEMMA OfferedIs ==
  ASSUME snapshot \in Published, NEW ids
  PROVE  /\ Ids(Offered(ids)) \subseteq Known /\ Ids(Offered(ids)) \subseteq ids
         /\ Ids(Selectable(Catalogs[snapshot])) \subseteq Known
  BY DEF Offered, ById, Selectable, Ids, Known

\* The domain of a property that was asked for has a setting.
LEMMA PropertyDomainIs ==
  ASSUME NEW source
  PROVE  PropertyDomain(source) \in SettableDomains \cup {None}
<1>. DEFINE rules == <<<<SaysWord(source, {"brightness", "bright"}), "light">>,
                       <<SaysWord(source, {"position"}), "cover">>,
                       <<SaysWord(source, {"temperature"}), "climate">>,
                       <<SaysWord(source, {"volume"}), "media_player">>,
                       <<SaysWord(source, {"speed"}), "fan">>>>
<1>1. DOMAIN rules = 1 .. 5
  OBVIOUS
<1>2. \A i \in 1 .. 5 : rules[i][2] \in SettableDomains
  BY DEF SettableDomains
<1>3. PropertyDomain(source) = FirstOf(rules, None)
  BY DEF PropertyDomain
<1>. HIDE DEF rules
<1>4. \/ FirstOf(rules, None) = None
      \/ \E i \in DOMAIN rules : FirstOf(rules, None) = rules[i][2]
  BY <1>1, FirstOfIs
<1>. QED
  BY <1>1, <1>2, <1>3, <1>4

\* A reply that settles a question names one candidate, or gives a value for
\* those that are left.
Settles(plan, text, candidates) ==
  \E s : /\ plan = Steps(<<{s}>>) /\ IsStep(s) /\ s.ids \subseteq Known
         /\ \/ BoundedValue(text)
            \/ \E i \in candidates : s.ids = {i}

\* So does what the session makes of a reply.
LEMMA ResolveIs ==
  ASSUME snapshot \in Published, NEW text,
         NEW question, question.operation.intent # None,
         NEW plan \in ResolvePending(text, question)
  PROVE  Settles(plan, text, question.candidates)
<1>. DEFINE candidates == Offered(question.candidates)
            domain == PropertyDomain(question.source)
            set == Setter(domain, SpokenNumber(text))
            settable == /\ question.operation.intent = "HassGetState"
                        /\ domain # None /\ BoundedValue(text)
                        /\ \A e \in candidates : e.domain = domain
            asked == question.operation
            named(e) == Step(asked.intent, {e.id}, [NoCall EXCEPT !.name = e.name], asked)
            given == Step(set.intent, Ids(candidates), NoCall, set)
<1>1. CASE settable
  <2>1. plan = Steps(<<{given}>>)
    BY <1>1 DEF ResolvePending
  <2>2. set.intent # None
    BY <1>1, PropertyDomainIs, SetterIs
  <2>3. IsStep(given) /\ given.ids = Ids(candidates)
    BY <2>2, StepIs
  <2>4. Ids(candidates) \subseteq Known /\ BoundedValue(text)
    BY <1>1, OfferedIs
  <2>. HIDE DEF given
  <2>. QED
    BY <2>1, <2>3, <2>4 DEF Settles
<1>2. CASE ~settable
  <2>1. PICK e \in BestMatch(text, question.candidates) : plan = Steps(<<{named(e)}>>)
    BY <1>2 DEF ResolvePending
  <2>2. IsStep(named(e)) /\ named(e).ids = {e.id}
    BY StepIs
  <2>3. e \in Offered(question.candidates) /\ e.id \in question.candidates
    BY BestMatchIs
  <2>4. {e.id} \subseteq Known
    BY <2>3, OfferedIs DEF Ids
  <2>. HIDE DEF named
  <2>. QED
    BY <2>1, <2>2, <2>3, <2>4 DEF Settles
<1>. QED
  BY <1>1, <1>2

\* A question that waits has an operation, and candidates of the catalog.
GoodQuestion(question) ==
  /\ question.candidates \subseteq Known
  /\ question # NoQuestion => question.operation.intent # None

\* The question that nothing waits for.
LEMMA NoQuestionIs == GoodQuestion(NoQuestion)
  BY DEF GoodQuestion, NoQuestion

\* A question made from words has an operation.
LEMMA FromWordsIs ==
  ASSUME snapshot \in Published, NEW text
  PROVE  GoodQuestion(PendingFromWords(text))
<1>. DEFINE domain == ReferencedDomain(text)
            scored == {e \in Selectable(Catalogs[snapshot]) : e.domain = domain}
            score == ScoreOf[snapshot][text]
            best == Max({0} \cup {score[e] : e \in scored})
            mentioned == {e \in scored : best > 0 /\ score[e] >= Max({1, best - 2})}
            number == SpokenNumber(text)
            says(words) == SaysWord(text, words)
            rules == <<<<says({"off", "deactivate", "disable"}), Plain("HassTurnOff", None)>>,
            <<says({"on", "activate", "enable"}), Plain("HassTurnOn", None)>>,
            <<says({"open", "raise"}) /\ domain = "cover", Plain("HassTurnOn", None)>>,
            <<says({"close", "closed", "shut", "lower"}) /\ domain = "cover", Plain("HassTurnOff", None)>>,
            <<says({"unlock"}) /\ domain = "lock", Plain("HassTurnOff", None)>>,
            <<says({"lock"}) /\ domain = "lock", Plain("HassTurnOn", None)>>,
            <<says({"brightness", "bright", "level", "state", "status"}), Plain("HassGetState", None)>>>>
            first == FirstOf(rules, NoOperation)
            operation ==
              IF number # NoNumber
              THEN IF domain \in SettableDomains THEN Setter(domain, number) ELSE NoOperation
              ELSE first
<1>1. PendingFromWords(text) =
        IF domain = None \/ Cardinality(mentioned) < 2 \/ operation = NoOperation THEN NoQuestion
        ELSE [operation |-> operation, candidates |-> Ids(mentioned), source |-> text]
  BY DEF PendingFromWords
<1>2. first = NoOperation \/ first.intent # None
  <2>1. DOMAIN rules = 1 .. 7
    OBVIOUS
  <2>2. \A i \in 1 .. 7 : rules[i][2].intent # None
    BY DEF Plain, Operation, None
  <2>. HIDE DEF rules
  <2>. QED
    BY <2>1, <2>2, FirstOfIs
<1>. HIDE DEF first
<1>3. operation = NoOperation \/ operation.intent # None
  BY <1>2, SetterIs
<1>4. Ids(mentioned) \subseteq Known
  <2>1. mentioned \subseteq Selectable(Catalogs[snapshot])
    OBVIOUS
  <2>. HIDE DEF mentioned
  <2>. QED
    BY <2>1, OfferedIs DEF Ids
<1>. HIDE DEF operation, mentioned
<1>. QED
  BY <1>1, <1>3, <1>4, NoQuestionIs DEF GoodQuestion

\* A question of the planner has an operation.
LEMMA PendingFromIs ==
  ASSUME snapshot \in Published, NEW text,
         NEW plan, plan.candidates # {} => plan.asked.intent # None
  PROVE  GoodQuestion(PendingFrom(text, plan))
<1>. DEFINE candidates == Ids(Offered(plan.candidates))
<1>1. candidates \subseteq Known /\ candidates \subseteq plan.candidates
  BY OfferedIs
<1>2. PendingFrom(text, plan) =
        IF candidates = {} THEN PendingFromWords(text)
        ELSE IF Cardinality(candidates) < 2 THEN NoQuestion
        ELSE [operation |-> plan.asked, candidates |-> candidates, source |-> text]
  BY DEF PendingFrom
<1>. HIDE DEF candidates
<1>. QED
  BY <1>1, <1>2, FromWordsIs, NoQuestionIs DEF GoodQuestion

-----------------------------------------------------------------------------
(* The session.                                                            *)

\* What waits and what is followed are entities and operations of plans.
SessionInv ==
  /\ snapshot \in Published
  /\ turns \in 0 .. MaxTurns
  /\ focus \subseteq Known
  /\ referent.intent # None \/ focus = {}
  /\ GoodQuestion(pending)
  /\ GoodPlan(answer.plan)

\* What is remembered of a plan are its entities and one of its intents.
LEMMA RememberIs ==
  ASSUME NEW text, NEW plan, GoodPlan(plan), plan.kind = "steps", Remember(text, plan)
  PROVE  focus' \subseteq Known /\ referent'.intent # None
<1>1. plan.clauses \in Seq(SUBSET StepsOf(plan)) /\ plan.clauses # <<>>
  BY DEF GoodPlan
<1>2. Last(plan.clauses) \subseteq StepsOf(plan)
  <2>. DEFINE S == SUBSET StepsOf(plan)
              q == plan.clauses
  <2>. HIDE DEF S, q
  <2>1. q \in Seq(S) /\ q # <<>>
    BY <1>1 DEF S, q
  <2>2. Len(q) \in 1 .. Len(q)
    BY <2>1, LenProperties, EmptySeq
  <2>3. q[Len(q)] \in S
    BY <2>1, <2>2, ElementOfSeq
  <2>. QED
    BY <2>3 DEF Last, S, q
<1>3. PICK last \in Last(plan.clauses) :
        \/ /\ focus' = IdsOf(plan)
           /\ referent' = [last EXCEPT !.ids = {}, !.call = NoCall]
        \/ /\ focus' = last.ids
           /\ referent' = [last EXCEPT !.ids = {}]
  BY DEF Remember
<1>4. IsStep(last) /\ last.ids \subseteq Known
  BY <1>2 DEF GoodPlan
<1>5. IdsOf(plan) \subseteq Known
  BY DEF GoodPlan, IdsOf
<1>6. referent'.intent = last.intent
  <2>. DEFINE r == [intent |-> last.intent, ids |-> last.ids, call |-> last.call,
                    slot |-> last.slot, number |-> last.number]
  <2>1. last = r
    BY <1>4 DEF IsStep
  <2>2. [r EXCEPT !.ids = {}].intent = last.intent
    OBVIOUS
  <2>3. [r EXCEPT !.ids = {}, !.call = NoCall].intent = last.intent
    OBVIOUS
  <2>. HIDE DEF r
  <2>. QED
    BY <1>3, <2>1, <2>2, <2>3
<1>. QED
  BY <1>3, <1>4, <1>5, <1>6 DEF IsStep

\* A turn that acts.
LEMMA Acted ==
  ASSUME SessionInv, NEW text, NEW area, NEW route, NEW plan,
         GoodPlan(plan), plan.kind = "steps",
         Say(text, area, route, plan), Remember(text, plan),
         pending' = pending \/ pending' = NoQuestion
  PROVE  SessionInv'
<1>1. focus' \subseteq Known /\ referent'.intent # None
  BY RememberIs
<1>2. snapshot' = snapshot /\ turns' \in 0 .. MaxTurns /\ answer'.plan = plan
  BY DialogueAssumption DEF Say, SessionInv
<1>3. GoodQuestion(pending')
  BY NoQuestionIs DEF SessionInv
<1>. QED
  BY <1>1, <1>2, <1>3 DEF SessionInv, GoodQuestion, GoodPlan, Known

\* A turn that only answers.
LEMMA Spoke ==
  ASSUME SessionInv, NEW text, NEW area, NEW route, NEW plan, GoodPlan(plan),
         Say(text, area, route, plan), UNCHANGED <<focus, referent>>,
         GoodQuestion(pending')
  PROVE  SessionInv'
<1>1. snapshot' = snapshot /\ turns' \in 0 .. MaxTurns /\ answer'.plan = plan
  BY DialogueAssumption DEF Say, SessionInv
<1>. QED
  BY <1>1 DEF SessionInv, GoodQuestion, GoodPlan, Known

\* Every turn keeps the session in order.
LEMMA SessionStep ==
  ASSUME SessionInv, [Next]_vars
  PROVE  SessionInv'
<1>1. ASSUME NEW text \in Texts, NEW area \in Origins, ReplaceQuestion(text, area)
      PROVE  SessionInv'
  <2>. DEFINE plan == PlanOf[snapshot][text][area]
  <2>1. GoodPlan(plan) /\ plan.kind = "steps"
    BY <1>1, PlannedIs DEF SessionInv, ReplaceQuestion, Replaces
  <2>2. Say(text, area, "replaced", plan) /\ Remember(text, plan) /\ pending' = NoQuestion
    BY <1>1 DEF ReplaceQuestion
  <2>. HIDE DEF plan
  <2>. QED
    BY <2>1, <2>2, Acted
<1>2. ASSUME NEW text \in Texts, NEW area \in Origins, Clarify(text, area)
      PROVE  SessionInv'
  <2>1. pending.operation.intent # None /\ snapshot \in Published
    BY <1>2 DEF Clarify, SessionInv, GoodQuestion
  <2>2. PICK plan \in ResolvePending(text, pending) :
          Say(text, area, "clarified", plan) /\ Remember(text, plan)
    BY <1>2 DEF Clarify
  <2>3. PICK s : plan = Steps(<<{s}>>) /\ IsStep(s) /\ s.ids \subseteq Known
    <3>1. Settles(plan, text, pending.candidates)
      BY <2>1, ResolveIs
    <3>. QED
      BY <3>1 DEF Settles
  <2>4. GoodPlan(plan) /\ plan.kind = "steps"
    BY <2>3, OneStep DEF Steps, Plan
  <2>5. pending' = NoQuestion
    BY <1>2 DEF Clarify
  <2>. QED
    BY <2>2, <2>4, <2>5, Acted
<1>3. ASSUME NEW text \in Texts, NEW area \in Origins,
             RepeatQuestion(text, area) \/ AskWhichOne(text, area)
      PROVE  SessionInv'
  <2>1. PICK route : Say(text, area, route, NoPlan("ask")) /\ Keep
    BY <1>3 DEF RepeatQuestion, AskWhichOne
  <2>2. GoodPlan(NoPlan("ask"))
    BY NoStep DEF PlanKinds
  <2>. QED
    BY <2>1, <2>2, Spoke DEF Keep, SessionInv, GoodQuestion, Known
<1>4. ASSUME NEW text \in Texts, NEW area \in Origins, Narrow(text, area)
      PROVE  SessionInv'
  <2>1. PICK plan \in QualifierPlans(text, focus, referent) :
          Say(text, area, "narrowed", plan) /\ Remember(text, plan)
    BY <1>4 DEF Narrow
  <2>2. PICK s : plan = Steps(<<{s}>>) /\ IsStep(s) /\ \E i \in focus : s.ids = {i}
    BY <2>1, QualifierIs DEF SessionInv
  <2>3. s.ids \subseteq Known
    BY <2>2 DEF SessionInv
  <2>4. GoodPlan(plan) /\ plan.kind = "steps"
    BY <2>2, <2>3, OneStep DEF Steps, Plan
  <2>5. pending' = pending
    BY <1>4 DEF Narrow
  <2>. QED
    BY <2>1, <2>4, <2>5, Acted
<1>5. ASSUME NEW text \in Texts, NEW area \in Origins, FollowUp(text, area)
      PROVE  SessionInv'
  <2>1. PICK plan \in RelativePlans(text, focus, referent) :
          Say(text, area, "relative", plan) /\ Remember(text, plan)
    BY <1>5 DEF FollowUp
  <2>2. PICK s : plan = Steps(<<{s}>>) /\ IsStep(s) /\ s.ids = focus
    BY <2>1, RelativeIs
  <2>3. GoodPlan(plan) /\ plan.kind = "steps"
    BY <2>2, OneStep DEF Steps, Plan, SessionInv
  <2>4. pending' = pending
    BY <1>5 DEF FollowUp
  <2>. QED
    BY <2>1, <2>3, <2>4, Acted
<1>6. ASSUME NEW text \in Texts, NEW area \in Origins, Command(text, area)
      PROVE  SessionInv'
  <2>. DEFINE plan == PlanOf[snapshot][text][area]
  <2>1. GoodPlan(plan) /\ plan.kind = "steps"
    BY <1>6, PlannedIs DEF SessionInv, Command
  <2>2. Say(text, area, "planned", plan) /\ Remember(text, plan) /\ pending' = pending
    BY <1>6 DEF Command
  <2>. HIDE DEF plan
  <2>. QED
    BY <2>1, <2>2, Acted
<1>7. ASSUME NEW text \in Texts, NEW area \in Origins, Ask(text, area)
      PROVE  SessionInv'
  <2>. DEFINE plan == PlanOf[snapshot][text][area]
  <2>1. GoodPlan(plan) /\ (plan.candidates # {} => plan.asked.intent # None)
    BY PlannedIs DEF SessionInv
  <2>2. Say(text, area, "asked", plan) /\ pending' = PendingFrom(text, plan) /\ UNCHANGED <<focus, referent>>
    BY <1>7 DEF Ask
  <2>. HIDE DEF plan
  <2>3. GoodQuestion(pending')
    BY <2>1, <2>2, PendingFromIs DEF SessionInv
  <2>. QED
    BY <2>1, <2>2, <2>3, Spoke
<1>8. ASSUME NEW text \in Texts, NEW area \in Origins, Decline(text, area)
      PROVE  SessionInv'
  <2>. DEFINE plan == PlanOf[snapshot][text][area]
  <2>1. GoodPlan(plan)
    BY PlannedIs DEF SessionInv
  <2>2. Say(text, area, "declined", plan) /\ Keep
    BY <1>8 DEF Decline
  <2>. HIDE DEF plan
  <2>. QED
    BY <2>1, <2>2, Spoke DEF Keep, SessionInv, GoodQuestion, Known
<1>9. CASE Publish
  BY <1>9 DEF Publish, SessionInv, GoodQuestion, GoodPlan, Known
<1>10. CASE UNCHANGED vars
  BY <1>10 DEF vars, SessionInv, GoodQuestion, GoodPlan, Known
<1>. QED
  BY <1>1, <1>2, <1>3, <1>4, <1>5, <1>6, <1>7, <1>8, <1>9, <1>10 DEF Next, Turn

\* The session is in order in every reachable state.
THEOREM Inductive == Spec => []SessionInv
<1>1. Init => SessionInv
  <2>. SUFFICES ASSUME Init PROVE SessionInv
    OBVIOUS
  <2>1. GoodPlan(answer.plan)
    BY NoStep DEF Init, PlanKinds
  <2>. QED
    BY <2>1, NoQuestionIs, DialogueAssumption DEF Init, SessionInv
<1>2. SessionInv /\ [Next]_vars => SessionInv'
  BY SessionStep
<1>. QED
  BY <1>1, <1>2, PTL DEF Spec

\* The variables have their types: what is followed, what is asked about and
\* what is done are entities and intents that a catalog or a rule knows,
\* however the catalogs change between a question and its reply
\* (supplemental.py:1520-1645).
THEOREM TypeCorrect == Spec => []TypeOK
<1>1. SessionInv => TypeOK
  BY DEF SessionInv, TypeOK, GoodQuestion, GoodPlan, IsStep, Known, PlanKinds
<1>. QED
  BY <1>1, Inductive, PTL

-----------------------------------------------------------------------------
(* "It".                                                                   *)

\* The words for numbers stand for numbers.
LEMMA WordIs ==
  /\ \A w \in DOMAIN WordValue : WordValue[w] \in Nat
  /\ \A w \in Numerals : DigitsValue[w] \in Nat
<1>1. \A w \in DOMAIN WordValue : WordValue[w] \in Nat
  BY DEF WordValue
<1>2. \A w \in Numerals : DigitsValue[w] \in Nat
  <2>. SUFFICES ASSUME NEW w \in Numerals PROVE DigitsValue[w] \in Nat
    OBVIOUS
  <2>1. \E n \in 0 .. MaxDigits : ToString(n) = w
    BY DEF Numerals
  <2>. DEFINE value == CHOOSE n \in 0 .. MaxDigits : ToString(n) = w
  <2>2. value \in 0 .. MaxDigits
    BY <2>1
  <2>3. DigitsValue[w] = value
    BY DEF DigitsValue
  <2>. HIDE DEF value
  <2>. QED
    BY <2>2, <2>3 DEF MaxDigits
<1>. QED
  BY <1>1, <1>2

\* A number is spoken wherever one of these words is.
LEMMA SpokenIs ==
  ASSUME NEW text \in Seq(STRING), NEW at \in DOMAIN text,
         text[at] \in Numerals \cup DOMAIN WordValue
  PROVE  SpokenNumber(text) # NoNumber
<1>. DEFINE words == Numerals \cup DOMAIN WordValue
            places == {i \in DOMAIN text : text[i] \in words}
            first == Min(places)
<1>1. places # {} /\ places \in SUBSET Nat
  BY LenProperties
<1>2. first \in places
  BY <1>1, MinIs
<1>3. SpokenNumber(text) =
        IF places = {} THEN NoNumber
        ELSE IF text[first] \in Numerals THEN DigitsValue[text[first]]
        ELSE IF first < Len(text) /\ text[first + 1] \in DOMAIN WordValue
        THEN WordValue[text[first]] + WordValue[text[first + 1]] ELSE WordValue[text[first]]
  BY DEF SpokenNumber
<1>4. text[first] \in words
  BY <1>2
<1>. HIDE DEF places, first
<1>5. SpokenNumber(text) \in Nat
  <2>1. CASE text[first] \in Numerals
    BY <1>1, <1>3, <2>1, WordIs
  <2>2. CASE text[first] \notin Numerals
    <3>1. WordValue[text[first]] \in Nat
      BY <1>4, <2>2, WordIs
    <3>2. CASE first < Len(text) /\ text[first + 1] \in DOMAIN WordValue
      <4>1. WordValue[text[first + 1]] \in Nat
        BY <3>2, WordIs
      <4>2. SpokenNumber(text) = WordValue[text[first]] + WordValue[text[first + 1]]
        BY <1>1, <1>3, <2>2, <3>2
      <4>. QED
        BY <3>1, <4>1, <4>2
    <3>3. CASE ~(first < Len(text) /\ text[first + 1] \in DOMAIN WordValue)
      BY <1>1, <1>3, <2>2, <3>1, <3>3
    <3>. QED
      BY <3>2, <3>3
  <2>. QED
    BY <2>1, <2>2
<1>. QED
  BY <1>5 DEF NoNumber

\* A bounded value is a number.
LEMMA BoundedIs ==
  ASSUME NEW text \in Seq(STRING), BoundedValue(text)
  PROVE  SpokenNumber(text) # NoNumber
<1>. DEFINE S == Seq(STRING)
            units == {"percent", "brightness", "level"}
            a == Tail(text)
            b == Without(a, {"it", "this", "that"})
            c == Without(b, {"to", "at"})
            d == IF c # <<>> /\ Last(c) \in units THEN Front(c) ELSE c
\* The words that are left are words of the text.
<1>. DEFINE Left(s) == s \in S /\ \A i \in DOMAIN s : \E j \in DOMAIN text : s[i] = text[j]
<1>1. Left(text) /\ text # <<>>
  BY DEF BoundedValue, Starts
<1>2. ASSUME NEW s, Left(s), s # <<>> PROVE Left(Tail(s))
  <2>1. /\ Tail(s) \in S /\ Len(Tail(s)) = Len(s) - 1 /\ Len(s) \in Nat
        /\ \A i \in 1 .. Len(s) - 1 : Tail(s)[i] = s[i + 1]
    BY <1>2, HeadTailProperties, LenProperties
  <2>2. \A i \in DOMAIN Tail(s) : i + 1 \in DOMAIN s /\ Tail(s)[i] = s[i + 1]
    BY <1>2, <2>1, LenProperties
  <2>. QED
    BY <1>2, <2>1, <2>2
<1>3. ASSUME NEW s, Left(s), s # <<>> PROVE Left(Front(s))
  <2>1. /\ Len(s) \in Nat /\ Len(s) >= 1 /\ DOMAIN s = 1 .. Len(s)
        /\ \A i \in 1 .. Len(s) : s[i] \in STRING
    BY <1>3, LenProperties, EmptySeq, ElementOfSeq
  <2>2. Front(s) = SubSeq(s, 1, Len(s) - 1)
    BY DEF Front
  <2>3. /\ SubSeq(s, 1, Len(s) - 1) \in S
        /\ \A i \in DOMAIN SubSeq(s, 1, Len(s) - 1) : i \in DOMAIN s /\ SubSeq(s, 1, Len(s) - 1)[i] = s[i]
    BY <2>1
  <2>. QED
    BY <1>3, <2>2, <2>3
<1>. HIDE DEF Left
<1>4. ASSUME NEW s, Left(s), NEW words PROVE Left(Without(s, words))
  BY <1>2, <1>4 DEF Without, Starts
<1>5. Left(c)
  BY <1>1, <1>2, <1>4
<1>6. Left(d)
  BY <1>3, <1>5
<1>7. IsNumeral(d)
  BY DEF BoundedValue, IsValue
<1>. HIDE DEF d
<1>8. d \in S
  BY <1>6 DEF Left
<1>9. 1 \in DOMAIN d /\ d[1] \in Numerals \cup DOMAIN WordValue
  BY <1>7, <1>8, LenProperties DEF IsNumeral, ToSet
<1>10. PICK j \in DOMAIN text : d[1] = text[j]
  BY <1>6, <1>9 DEF Left
<1>. QED
  BY <1>9, <1>10, SpokenIs

\* Of a group that is in focus "it" means one, or nothing is done.
LEMMA ItStep ==
  ASSUME SessionInv, [Next]_vars, turns' # turns, Cardinality(focus) > 1,
         SaysWord(answer'.text, {"it", "its"}), SpokenNumber(answer'.text) = NoNumber,
         Len(SplitCompoundRequest(answer'.text)) = 1
  PROVE  \A s \in StepsOf(answer'.plan) : Cardinality(s.ids) <= 1
<1>. DEFINE Single(plan) == \A s \in StepsOf(plan) : Cardinality(s.ids) <= 1
<1>a. ASSUME NEW s, NEW x, s.ids = {x} PROVE Single(Steps(<<{s}>>))
  <2>1. StepsOf(Steps(<<{s}>>)) = {s} /\ Cardinality(s.ids) = 1
    BY <1>a, OneStep, OneElement
  <2>. QED
    BY <2>1
<1>1. PICK text \in Texts, area \in Origins : Turn(text, area)
  BY DEF Next, vars, Publish
<1>2. PICK route, plan : Say(text, area, route, plan)
  BY <1>1
  DEF Turn, ReplaceQuestion, Clarify, RepeatQuestion, Narrow, AskWhichOne, FollowUp, Command, Ask, Decline
<1>3. answer'.text = text /\ answer'.plan = plan
  BY <1>2 DEF Say
<1>4. SingularPronounForGroup(text, focus)
  <2>1. SaysWord(text, {"it", "its", "this", "that"})
    BY <1>3 DEF SaysWord
  <2>. QED
    BY <1>3, <2>1 DEF SingularPronounForGroup
<1>5. CASE ReplaceQuestion(text, area)
  <2>1. plan = PlanFor(Catalogs[snapshot], text, area) /\ snapshot \in Published
    BY <1>3, <1>5 DEF ReplaceQuestion, Say, PlanOf, SessionInv
  <2>. QED
    BY <1>3, <2>1, PronounAssumption
<1>6. CASE Clarify(text, area)
  <2>1. pending.operation.intent # None /\ snapshot \in Published
    BY <1>6 DEF Clarify, SessionInv, GoodQuestion
  <2>2. plan \in ResolvePending(text, pending)
    BY <1>3, <1>6 DEF Clarify, Say
  <2>3. ~BoundedValue(text)
    BY <1>3, BoundedIs, DialogueAssumption
  <2>4. Settles(plan, text, pending.candidates)
    BY <2>1, <2>2, ResolveIs
  <2>5. PICK s : plan = Steps(<<{s}>>) /\ \E i \in pending.candidates : s.ids = {i}
    BY <2>3, <2>4 DEF Settles
  <2>. QED
    BY <1>3, <1>a, <2>5
<1>7. CASE RepeatQuestion(text, area) \/ AskWhichOne(text, area)
  <2>1. plan = NoPlan("ask")
    BY <1>3, <1>7 DEF RepeatQuestion, AskWhichOne, Say
  <2>. QED
    BY <1>3, <2>1, NoStep DEF PlanKinds
<1>8. CASE Narrow(text, area)
  <2>1. plan \in QualifierPlans(text, focus, referent)
    BY <1>3, <1>8 DEF Narrow, Say
  <2>2. referent.intent # None \/ focus = {}
    BY DEF SessionInv
  <2>3. PICK s : plan = Steps(<<{s}>>) /\ IsStep(s) /\ \E i \in focus : s.ids = {i}
    BY <2>1, <2>2, QualifierIs
  <2>. QED
    BY <1>3, <1>a, <2>3
<1>9. ~(FollowUp(text, area) \/ Command(text, area) \/ Ask(text, area) \/ Decline(text, area))
  BY <1>4 DEF FollowUp, Command, Ask, Decline, Delegated
<1>. QED
  BY <1>1, <1>5, <1>6, <1>7, <1>8, <1>9 DEF Turn

\* "It" never moves a group of which nobody chose a member, by no route of the
\* session: where a question is open, a value for all its candidates has a
\* number, and the planner of a single clause has nothing before it that it
\* could take for "it" (supplemental.py:1520-1645).
THEOREM ItStaysOne == Spec => ItIsOne
<1>. DEFINE One ==
       turns' # turns /\ Cardinality(focus) > 1
       /\ SaysWord(answer'.text, {"it", "its"}) /\ SpokenNumber(answer'.text) = NoNumber
       /\ Len(SplitCompoundRequest(answer'.text)) = 1
       => \A s \in StepsOf(answer'.plan) : Cardinality(s.ids) <= 1
<1>1. SessionInv /\ [Next]_vars => One
  BY ItStep
<1>. QED
  BY <1>1, Inductive, PTL DEF ItIsOne, Spec
=============================================================================

------------------------- MODULE AuditPipelineProofs -------------------------
(* Proofs about the audit pipeline, for every number of concurrent log calls, every
   rule table, sink size and set of hooks. *)
EXTENDS AuditPipeline, FiniteSetTheorems, SequenceTheorems, TLAPS

(* --------------------------------- the sink -------------------------------- *)

\* What InMemoryAuditSink::append leaves of the entries.
LEMMA AppendShape ==
    ASSUME NEW S, NEW sink \in Seq(S), NEW e \in S
    PROVE  /\ AppendTo(sink, e) \in Seq(S)
           /\ Len(AppendTo(sink, e)) = IF Len(sink) + 1 > MaxEntries THEN MaxEntries ELSE Len(sink) + 1
           /\ \A i \in 1..Len(AppendTo(sink, e)) :
                 AppendTo(sink, e)[i] =
                    LET k == i + (Len(sink) + 1 - Len(AppendTo(sink, e)))
                    IN  IF k = Len(sink) + 1 THEN e ELSE sink[k]
<1> DEFINE grown == Append(sink, e)
<1>1. /\ grown \in Seq(S) /\ Len(grown) = Len(sink) + 1 /\ Len(sink) \in Nat
      /\ \A i \in 1..Len(grown) : grown[i] = IF i = Len(sink) + 1 THEN e ELSE sink[i]
  OBVIOUS
<1>2. MaxEntries \in Nat
  BY AuditAssumption
<1>3. AppendTo(sink, e) = IF Len(grown) > MaxEntries
                          THEN SubSeq(grown, Len(grown) - MaxEntries + 1, Len(grown)) ELSE grown
  BY DEF AppendTo
<1> HIDE DEF grown
<1>4. CASE Len(grown) > MaxEntries
  <2> DEFINE m == Len(grown) - MaxEntries + 1
  <2>1. m \in Int /\ Len(grown) \in Int /\ m >= 1
    BY <1>1, <1>2, <1>4
  <2>2. \A i \in m..Len(grown) : grown[i] \in S
    BY <1>1, <2>1
  <2>3. /\ SubSeq(grown, m, Len(grown)) \in Seq(S)
        /\ Len(SubSeq(grown, m, Len(grown))) = IF m <= Len(grown) THEN Len(grown) - m + 1 ELSE 0
        /\ \A i \in 1..(Len(grown) - m + 1) : SubSeq(grown, m, Len(grown))[i] = grown[m + i - 1]
    BY <2>1, <2>2, SubSeqProperties
  <2>4. AppendTo(sink, e) = SubSeq(grown, m, Len(grown))
    BY <1>3, <1>4
  <2>5. Len(AppendTo(sink, e)) = MaxEntries
    BY <1>1, <1>2, <1>4, <2>3, <2>4
  <2>6. ASSUME NEW i \in 1..MaxEntries
        PROVE  AppendTo(sink, e)[i] = LET k == i + (Len(sink) + 1 - MaxEntries)
                                      IN  IF k = Len(sink) + 1 THEN e ELSE sink[k]
    <3>1. i \in 1..(Len(grown) - m + 1) /\ m + i - 1 = i + (Len(sink) + 1 - MaxEntries)
      BY <1>1, <1>2, <1>4
    <3>2. AppendTo(sink, e)[i] = grown[i + (Len(sink) + 1 - MaxEntries)]
      BY <2>3, <2>4, <3>1
    <3>3. i + (Len(sink) + 1 - MaxEntries) \in 1..Len(grown)
      BY <1>1, <1>2, <1>4
    <3> QED
      BY <1>1, <3>2, <3>3
  <2> QED
    BY <1>1, <1>4, <2>3, <2>4, <2>5, <2>6
<1>5. CASE ~(Len(grown) > MaxEntries)
  BY <1>1, <1>2, <1>3, <1>5
<1> QED
  BY <1>4, <1>5

\* A new sink, or one with a single denial, is in order.
LEMMA SinkInit == Init => SinkOK /\ SinkKeepsNewest
<1> SUFFICES ASSUME Init PROVE SinkOK /\ SinkKeepsNewest
  OBVIOUS
<1>1. CASE entries = <<>> /\ logged = {} /\ nextId = 1
  <2>1. IsFiniteSet(logged)
    BY <1>1, FS_EmptySet
  <2> QED
    BY <1>1, <2>1, AuditAssumption DEF SinkOK, SinkKeepsNewest
<1>2. ASSUME NEW s \in Subjects,
             LET e == [id |-> 1, subject |-> s, granted |-> FALSE, risk |-> -1, penalty |-> 0, at |-> 0]
             IN  entries = AppendTo(<<>>, e) /\ logged = {e} /\ nextId = 2
      PROVE  SinkOK /\ SinkKeepsNewest
  <2> DEFINE e == [id |-> 1, subject |-> s, granted |-> FALSE, risk |-> -1, penalty |-> 0, at |-> 0]
  <2>1. e \in AuditEntry /\ e.id = 1
    BY DEF AuditEntry
  <2>2. IsFiniteSet(logged)
    BY <1>2, FS_Singleton
  <2>3. entries = AppendTo(<<>>, e) /\ logged = {e} /\ nextId = 2
    BY <1>2
  <2> HIDE DEF e
  <2>4. PICK none \in Seq(AuditEntry) : none = <<>> /\ Len(none) = 0
    <3>1. <<>> \in Seq(AuditEntry) /\ Len(<<>>) = 0
      OBVIOUS
    <3> QED
      BY <3>1
  <2>5. /\ entries \in Seq(AuditEntry)
        /\ Len(entries) = IF Len(none) + 1 > MaxEntries THEN MaxEntries ELSE Len(none) + 1
        /\ \A i \in 1..Len(entries) :
              entries[i] = LET k == i + (Len(none) + 1 - Len(entries))
                           IN  IF k = Len(none) + 1 THEN e ELSE none[k]
    <3>1. entries = AppendTo(none, e)
      BY <2>3, <2>4
    <3> QED
      BY <2>1, <3>1, AppendShape
  <2>6. \A i \in 1..Len(entries) : entries[i] = e /\ i = 1 /\ Len(entries) = 1
    BY <2>4, <2>5, AuditAssumption
  <2>7. SinkOK
    BY <2>1, <2>2, <2>3, <2>5, <2>6 DEF SinkOK
  <2>8. SinkKeepsNewest
    BY <2>1, <2>3, <2>4, <2>5, <2>6, AuditAssumption DEF SinkKeepsNewest
  <2> QED
    BY <2>7, <2>8
<1> QED
  BY <1>1, <1>2 DEF Init

\* log: an append numbers the entry, keeps what was logged and drops only the oldest.
LEMMA SinkAppend ==
    ASSUME SinkOK, SinkKeepsNewest, nextId \in Nat, NEW e \in AuditEntry, e.id = nextId,
           entries' = AppendTo(entries, e), logged' = logged \cup {e}, nextId' = nextId + 1
    PROVE  SinkOK' /\ SinkKeepsNewest'
<1>1. /\ entries \in Seq(AuditEntry) /\ Len(entries) \in Nat
      /\ \A i \in 1..Len(entries) : entries[i] \in logged
  BY DEF SinkOK
<1>2. MaxEntries \in Nat
  BY AuditAssumption
<1>3. /\ entries' \in Seq(AuditEntry)
      /\ Len(entries') = IF Len(entries) + 1 > MaxEntries THEN MaxEntries ELSE Len(entries) + 1
      /\ \A i \in 1..Len(entries') :
            entries'[i] = LET k == i + (Len(entries) + 1 - Len(entries'))
                          IN  IF k = Len(entries) + 1 THEN e ELSE entries[k]
  BY <1>1, AppendShape
<1>4. /\ Len(entries) = IF nextId - 1 < MaxEntries THEN nextId - 1 ELSE MaxEntries
      /\ \A i \in 1..Len(entries) : entries[i].id = nextId - 1 - Len(entries) + i
  BY <1>1 DEF SinkKeepsNewest
<1>5. ASSUME NEW i \in 1..Len(entries')
      PROVE  entries'[i] \in logged' /\ entries'[i].id = nextId - Len(entries') + i
  <2> DEFINE k == i + (Len(entries) + 1 - Len(entries'))
  <2>1. k \in 1..(Len(entries) + 1) /\ k \in Int /\ Len(entries') \in Nat
    BY <1>1, <1>2, <1>3
  <2>2. entries'[i] = IF k = Len(entries) + 1 THEN e ELSE entries[k]
    BY <1>3
  <2>3. CASE k = Len(entries) + 1
    <3>1. i = Len(entries')
      BY <1>1, <2>1, <2>3
    <3> QED
      BY <2>1, <2>2, <2>3, <3>1
  <2>4. CASE k # Len(entries) + 1
    <3>1. k \in 1..Len(entries)
      BY <1>1, <2>1, <2>4
    <3>2. entries[k] \in logged /\ entries[k].id = nextId - 1 - Len(entries) + k
      BY <1>1, <1>4, <3>1
    <3>3. nextId - 1 - Len(entries) + k = nextId - Len(entries') + i
      BY <1>1, <2>1
    <3> QED
      BY <2>2, <2>4, <3>2, <3>3
  <2> QED
    BY <2>3, <2>4
<1>6. Len(entries') = IF nextId' - 1 < MaxEntries THEN nextId' - 1 ELSE MaxEntries
  BY <1>1, <1>2, <1>3, <1>4
<1>7. IsFiniteSet(logged') /\ logged' \subseteq AuditEntry
  BY FS_AddElement DEF SinkOK
<1>8. DOMAIN entries' = 1..Len(entries') /\ nextId' - 1 = nextId
  BY <1>3
<1>9. SinkOK'
  BY <1>3, <1>5, <1>7, <1>8 DEF SinkOK
<1>10. SinkKeepsNewest'
  BY <1>3, <1>5, <1>6, <1>8 DEF SinkKeepsNewest
<1> QED
  BY <1>9, <1>10

\* RapidDenials counts at most the subject's denials ever logged in the window: the
\* sink never holds an entry twice.
LEMMA CountBounded ==
    ASSUME SinkOK, SinkKeepsNewest, nextId \in Nat, NEW s, NEW since \in Int
    PROVE  /\ Count([subject |-> s, granted |-> FALSE, since |-> since])
                <= Cardinality({e \in logged : e.subject = s /\ ~e.granted /\ e.at >= since})
           /\ Count([subject |-> s, granted |-> FALSE, since |-> since]) \in Nat
<1> DEFINE filter == [subject |-> s, granted |-> FALSE, since |-> since]
           hits == {i \in DOMAIN entries : MatchesFilter(entries[i], filter)}
           found == {e \in logged : e.subject = s /\ ~e.granted /\ e.at >= since}
           f == [i \in hits |-> entries[i]]
<1>1. /\ entries \in Seq(AuditEntry) /\ Len(entries) \in Nat /\ DOMAIN entries = 1..Len(entries)
      /\ \A i \in DOMAIN entries : entries[i] \in logged /\ entries[i] \in AuditEntry
  BY DEF SinkOK
<1>2. \A i \in hits : entries[i].subject = s /\ entries[i].granted = FALSE /\ entries[i].at >= since
  BY DEF MatchesFilter, Given
<1>3. f \in [hits -> found]
  BY <1>1, <1>2
<1>4. \A i, j \in hits : f[i] = f[j] => i = j
  BY <1>1 DEF SinkKeepsNewest
<1>5. f \in Injection(hits, found)
  BY <1>3, <1>4 DEF Injection, IsInjective
<1>6. IsFiniteSet(found)
  <2>1. found \in SUBSET logged
    OBVIOUS
  <2> QED
    BY <2>1, FS_Subset DEF SinkOK
<1>7. IsFiniteSet(hits) /\ Cardinality(hits) <= Cardinality(found)
  <2> HIDE DEF hits, found, f
  <2> QED
    BY <1>5, <1>6, FS_Injection
<1> QED
  BY <1>7, FS_CardinalityType DEF Count

(* --------------------------------- the steps -------------------------------- *)

\* A fresh pipeline satisfies the invariant.
LEMMA IndInit == Init => IndInv
<1> SUFFICES ASSUME Init PROVE IndInv
  OBVIOUS
<1>1. SinkOK /\ SinkKeepsNewest
  BY SinkInit
<1>2. nextId \in Nat
  <2>1. nextId = 1 \/ nextId = 2
    BY Zenon DEF Init
  <2> QED
    BY <2>1
<1>3. DOMAIN rules = {} /\ DOMAIN last = {}
  BY DEF Init
<1>4. \A l \in Loggers : tasks[l] = [pc |-> "unused"]
  BY DEF Init, Unused
<1>5. TypeOK
  <2>1. now \in 0..MaxNow /\ fired \subseteq AuditAlert
    BY AuditAssumption DEF Init
  <2>2. \A i \in DOMAIN entries : entries[i] \in AuditEntry \cap logged
    BY <1>1 DEF SinkOK
  <2> QED
    BY <1>2, <1>3, <1>4, <2>1, <2>2 DEF TypeOK
<1>6. TasksOK /\ Evaluating = {}
  BY <1>4 DEF Init, TasksOK, TaskOK, Evaluating
<1>7. /\ RapidDenialsJustified /\ AlertsReachHooks /\ CooldownWhenSequential
      /\ AlertsHeld /\ OneEvaluation /\ CooldownsKept
  BY <1>6 DEF Init, RapidDenialsJustified, AlertsReachHooks, CooldownWhenSequential, AlertsHeld,
              OneEvaluation, CooldownsKept
<1> QED
  BY <1>1, <1>5, <1>6, <1>7 DEF IndInv, NothingLost

\* The clock may pass at any moment.
LEMMA TickStep == IndInv /\ Tick => IndInv'
<1> SUFFICES ASSUME IndInv, Tick PROVE IndInv'
  OBVIOUS
<1> USE DEF Tick
<1>1. now \in 0..MaxNow /\ now' = now + 1 /\ now < MaxNow
  BY DEF IndInv, NothingLost, TypeOK
<1>2. now' \in 0..MaxNow /\ \A t \in 0..now : t \in 0..now'
  BY <1>1, AuditAssumption
<1>3. TypeOK'
  BY <1>2 DEF IndInv, NothingLost, TypeOK
<1>4. TasksOK'
  BY <1>2 DEF IndInv, TasksOK, TaskOK
<1>5. SinkOK' /\ SinkKeepsNewest' /\ RapidDenialsJustified' /\ AlertsReachHooks'
  BY DEF IndInv, NothingLost, SinkOK, SinkKeepsNewest, RapidDenialsJustified, AlertsReachHooks
<1>6. CooldownWhenSequential' /\ AlertsHeld' /\ OneEvaluation' /\ CooldownsKept'
  BY DEF IndInv, CooldownWhenSequential, CooldownBetween, AlertsHeld, OneEvaluation, CooldownsKept,
         Evaluating, Remembers
<1> QED
  BY <1>3, <1>4, <1>5, <1>6 DEF IndInv, NothingLost

\* add_rule and remove_rule touch the rule table only: evaluations work on copies, and
\* the cooldown of a removed rule stays in its table.
LEMMA RuleTableStep ==
    ASSUME IndInv, \E r \in RuleSet : AddRule(r) \/ RemoveRule(r.id)
    PROVE  IndInv'
<1>1. \A p \in DOMAIN rules : rules[p] \in RuleSet
  BY DEF IndInv, NothingLost, TypeOK
<1>2. (\A p \in DOMAIN rules : rules[p] \in RuleSet)'
  <2>1. ASSUME NEW r \in RuleSet, AddRule(r) PROVE \A p \in DOMAIN rules' : rules'[p] \in RuleSet
    BY <1>1, <2>1 DEF AddRule, Noted
  <2>2. ASSUME NEW id, RemoveRule(id) PROVE \A p \in DOMAIN rules' : rules'[p] \in RuleSet
    BY <1>1, <2>2 DEF RemoveRule, Restrict
  <2> QED
    BY <2>1, <2>2
<1>3. UNCHANGED <<now, entries, nextId, last, tasks, fired, handed, logged, overlapped>>
  BY DEF AddRule, RemoveRule
<1>4. TypeOK'
  BY <1>2, <1>3 DEF IndInv, NothingLost, TypeOK
<1>5. SinkOK' /\ SinkKeepsNewest' /\ RapidDenialsJustified' /\ AlertsReachHooks' /\ TasksOK'
  BY <1>3 DEF IndInv, NothingLost, SinkOK, SinkKeepsNewest, RapidDenialsJustified, AlertsReachHooks,
              TasksOK, TaskOK
<1>6. CooldownWhenSequential' /\ AlertsHeld' /\ OneEvaluation' /\ CooldownsKept'
  BY <1>3 DEF IndInv, CooldownWhenSequential, CooldownBetween, AlertsHeld, OneEvaluation,
              CooldownsKept, Evaluating, Remembers
<1> QED
  BY <1>4, <1>5, <1>6 DEF IndInv, NothingLost

\* Entries logged later never take the justification of an alert away.
LEMMA JustifiedGrows ==
    ASSUME RapidDenialsJustified, fired \subseteq AuditAlert, UNCHANGED fired,
           logged \subseteq logged', IsFiniteSet(logged')
    PROVE  RapidDenialsJustified'
<1> SUFFICES ASSUME NEW a \in fired, a.rule.condition.kind = "RapidDenials"
             PROVE  Cardinality({e \in logged' : /\ e.subject = a.subject /\ ~e.granted
                                                /\ e.at >= a.at - a.rule.condition.window})
                      >= a.rule.condition.min_count
  BY DEF RapidDenialsJustified
<1> DEFINE Before == {e \in logged : /\ e.subject = a.subject /\ ~e.granted
                                     /\ e.at >= a.at - a.rule.condition.window}
           After == {e \in logged' : /\ e.subject = a.subject /\ ~e.granted
                                     /\ e.at >= a.at - a.rule.condition.window}
<1>1. Before \in SUBSET After /\ After \in SUBSET logged'
  OBVIOUS
<1>2. Cardinality(Before) >= a.rule.condition.min_count
  BY DEF RapidDenialsJustified
<1>3. a.rule.condition.min_count \in Nat
  BY RuleAssumption DEF AuditAlert
<1> HIDE DEF Before, After
<1>4. IsFiniteSet(After)
  BY <1>1, FS_Subset
<1>5. /\ IsFiniteSet(Before) /\ Cardinality(Before) <= Cardinality(After)
  BY <1>1, <1>4, FS_Subset
<1>6. Cardinality(Before) \in Nat /\ Cardinality(After) \in Nat
  BY <1>4, <1>5, FS_CardinalityType
<1>7. Cardinality(After) >= a.rule.condition.min_count
  BY <1>2, <1>3, <1>5, <1>6
<1> QED
  BY <1>7 DEF After

\* log: the append.
LEMMA LogAppendStep == ASSUME IndInv, NEW l \in Loggers, LogAppend(l) PROVE IndInv'
<1>1. PICK s \in Subjects, g \in BOOLEAN, r \in Risks :
        LET e == [id |-> nextId, subject |-> s, granted |-> g, risk |-> r,
                  penalty |-> RiskOf([risk |-> r]), at |-> now]
        IN  /\ entries' = AppendTo(entries, e)
            /\ logged' = logged \cup {e}
            /\ tasks' = [tasks EXCEPT ![l] = [pc |-> "rules", entry |-> e]]
  BY DEF LogAppend
<1> DEFINE e == [id |-> nextId, subject |-> s, granted |-> g, risk |-> r,
                 penalty |-> RiskOf([risk |-> r]), at |-> now]
<1>2. now \in 0..MaxNow /\ now \in Nat /\ nextId \in Nat /\ fired \subseteq AuditAlert
  BY AuditAssumption DEF IndInv, NothingLost, TypeOK
<1>3. RiskOf([risk |-> r]) \in Int
  BY AuditAssumption DEF RiskOf
<1>4. e \in AuditEntry /\ e.id = nextId
  BY <1>2, <1>3, AuditAssumption DEF AuditEntry
<1>5. /\ entries' = AppendTo(entries, e) /\ logged' = logged \cup {e}
      /\ tasks' = [tasks EXCEPT ![l] = [pc |-> "rules", entry |-> e]]
  BY <1>1
<1> HIDE DEF e
<1>6. /\ tasks[l].pc = "unused" /\ nextId' = nextId + 1
      /\ UNCHANGED <<now, rules, changes, last, fired, handed, overlapped>>
  BY DEF LogAppend
<1>7. SinkOK' /\ SinkKeepsNewest'
  BY <1>2, <1>4, <1>5, <1>6, SinkAppend DEF IndInv, NothingLost
<1>8. DOMAIN tasks = Loggers
  BY DEF IndInv, TasksOK
<1>9. /\ tasks'[l] = [pc |-> "rules", entry |-> e] /\ DOMAIN tasks' = Loggers
      /\ \A m \in Loggers : m # l => tasks'[m] = tasks[m]
  BY <1>5, <1>8
<1>10. TasksOK'
  BY <1>4, <1>6, <1>9 DEF IndInv, TasksOK, TaskOK
<1>11. TypeOK'
  <2>1. (\A i \in DOMAIN entries : entries[i] \in AuditEntry \cap logged)'
    BY <1>7 DEF SinkOK
  <2>2. \A m \in Loggers : tasks'[m].pc \in {"unused", "rules", "rule", "hooks", "done"}
    BY <1>10 DEF TasksOK, TaskOK
  <2> QED
    BY <1>2, <1>6, <2>1, <2>2 DEF IndInv, NothingLost, TypeOK
<1>12. RapidDenialsJustified'
  <2>1. IsFiniteSet(logged') /\ logged \subseteq logged'
    BY <1>5, <1>7 DEF SinkOK
  <2> QED
    BY <1>2, <1>6, <2>1, JustifiedGrows DEF IndInv, NothingLost
<1>13. AlertsReachHooks'
  BY <1>6, <1>9 DEF IndInv, NothingLost, AlertsReachHooks
<1>14. CooldownWhenSequential'
  BY <1>6 DEF IndInv, CooldownWhenSequential, CooldownBetween
<1>15. \A a \in fired : a.by \in Loggers /\ a.by # l
  BY <1>2, <1>6 DEF IndInv, AlertsHeld, AuditAlert
<1>16. AlertsHeld'
  BY <1>6, <1>9, <1>15 DEF IndInv, AlertsHeld
<1>17. Evaluating' = Evaluating /\ l \notin Evaluating
  BY <1>6, <1>9 DEF Evaluating
<1>18. OneEvaluation'
  BY <1>6, <1>17 DEF IndInv, OneEvaluation
<1>19. CooldownsKept'
  <2>1. \A m \in Evaluating : tasks'[m].snap = tasks[m].snap
    BY <1>9, <1>17 DEF Evaluating
  <2> QED
    BY <1>6, <1>17, <2>1 DEF IndInv, CooldownsKept, Remembers
<1> QED
  BY <1>7, <1>10, <1>11, <1>12, <1>13, <1>14, <1>16, <1>18, <1>19 DEF IndInv, NothingLost

\* evaluate: the copies of the rule table and the cooldown table.
LEMMA EvalStartStep == ASSUME IndInv, NEW l \in Loggers, EvalStart(l) PROVE IndInv'
<1>1. /\ tasks[l].pc = "rules" /\ overlapped' = (overlapped \/ Evaluating # {})
      /\ UNCHANGED <<now, entries, nextId, rules, changes, last, fired, handed, logged>>
  BY DEF EvalStart
<1>2. DOMAIN tasks = Loggers
  BY DEF IndInv, TasksOK
<1>3. /\ tasks'[l] = [pc |-> "rule", entry |-> tasks[l].entry, todo |-> rules,
                      snap |-> last, at |-> now, alerts |-> {}]
      /\ DOMAIN tasks' = Loggers
      /\ \A m \in Loggers : m # l => tasks'[m] = tasks[m]
  BY <1>2 DEF EvalStart
<1>4. /\ now \in 0..MaxNow /\ now \in 0..now /\ fired \subseteq AuditAlert
      /\ \A p \in DOMAIN rules : rules[p] \in RuleSet
      /\ \A r \in DOMAIN last : last[r] \in 0..now
  BY AuditAssumption DEF IndInv, NothingLost, TypeOK
<1>5. tasks[l].entry \in AuditEntry
  BY <1>1 DEF IndInv, TasksOK, TaskOK
<1>6. TasksOK'
  BY <1>1, <1>3, <1>4, <1>5 DEF IndInv, TasksOK, TaskOK
<1>7. TypeOK'
  <2>1. \A m \in Loggers : tasks'[m].pc \in {"unused", "rules", "rule", "hooks", "done"}
    BY <1>6 DEF TasksOK, TaskOK
  <2> QED
    BY <1>1, <2>1 DEF IndInv, NothingLost, TypeOK
<1>8. SinkOK' /\ SinkKeepsNewest' /\ RapidDenialsJustified'
  BY <1>1 DEF IndInv, NothingLost, SinkOK, SinkKeepsNewest, RapidDenialsJustified
<1>9. AlertsReachHooks'
  BY <1>1, <1>3 DEF IndInv, NothingLost, AlertsReachHooks
<1>10. CooldownWhenSequential'
  BY <1>1 DEF IndInv, CooldownWhenSequential, CooldownBetween
<1>11. \A a \in fired : a.by \in Loggers /\ a.by # l
  BY <1>1, <1>4 DEF IndInv, AlertsHeld, AuditAlert
<1>12. AlertsHeld'
  BY <1>1, <1>3, <1>11 DEF IndInv, AlertsHeld
<1>13. Evaluating' = Evaluating \cup {l}
  BY <1>1, <1>3 DEF Evaluating
<1>14. OneEvaluation'
  BY <1>1, <1>13 DEF OneEvaluation
<1>15. CooldownsKept'
  <2>1. SUFFICES ASSUME ~overlapped, Evaluating = {} PROVE CooldownsKept'
    BY <1>1 DEF CooldownsKept
  <2>2. \A a \in fired : Remembers(last, a)
    BY <2>1 DEF IndInv, CooldownsKept
  <2>3. Evaluating' = {l} /\ tasks'[l].snap = last
    BY <1>3, <1>13, <2>1
  <2> QED
    BY <1>1, <2>2, <2>3 DEF CooldownsKept, Remembers
<1> QED
  BY <1>6, <1>7, <1>8, <1>9, <1>10, <1>12, <1>14, <1>15 DEF IndInv, NothingLost

\* evaluate: the whole copy is written back, so every alert it holds is remembered.
LEMMA EvalStoreStep == ASSUME IndInv, NEW l \in Loggers, EvalStore(l) PROVE IndInv'
<1>1. /\ tasks[l].pc = "rule" /\ last' = WriteBack(last, tasks[l].snap)
      /\ UNCHANGED <<now, entries, nextId, rules, changes, fired, handed, logged, overlapped>>
  BY DEF EvalStore
<1>2. DOMAIN tasks = Loggers
  BY DEF IndInv, TasksOK
<1>3. /\ tasks'[l] = [pc |-> "hooks", alerts |-> tasks[l].alerts] /\ DOMAIN tasks' = Loggers
      /\ \A m \in Loggers : m # l => tasks'[m] = tasks[m]
  BY <1>2 DEF EvalStore
<1>4. TasksOK'
  BY <1>1, <1>3 DEF IndInv, TasksOK, TaskOK
<1>5. TypeOK'
  <2>1. \A m \in Loggers : tasks'[m].pc \in {"unused", "rules", "rule", "hooks", "done"}
    BY <1>4 DEF TasksOK, TaskOK
  <2>2. \A r \in DOMAIN tasks[l].snap : tasks[l].snap[r] \in 0..now
    BY <1>1 DEF IndInv, TasksOK, TaskOK
  <2>3. \A r \in DOMAIN last' : last'[r] \in 0..now
    BY <1>1, <2>2 DEF IndInv, NothingLost, TypeOK, WriteBack
  <2> QED
    BY <1>1, <2>1, <2>3 DEF IndInv, NothingLost, TypeOK
<1>6. SinkOK' /\ SinkKeepsNewest' /\ RapidDenialsJustified'
  BY <1>1 DEF IndInv, NothingLost, SinkOK, SinkKeepsNewest, RapidDenialsJustified
<1>7. AlertsReachHooks'
  BY <1>1, <1>3 DEF IndInv, NothingLost, AlertsReachHooks
<1>8. CooldownWhenSequential'
  BY <1>1 DEF IndInv, CooldownWhenSequential, CooldownBetween
<1>9. AlertsHeld'
  <2>1. \A a \in fired : a.by \in Loggers
    BY DEF IndInv, NothingLost, TypeOK, AuditAlert
  <2> QED
    BY <1>1, <1>3, <2>1 DEF IndInv, AlertsHeld
<1>10. Evaluating' = Evaluating \ {l} /\ l \in Evaluating
  BY <1>1, <1>3 DEF Evaluating
<1>11. OneEvaluation'
  BY <1>1, <1>10 DEF IndInv, OneEvaluation
<1>12. CooldownsKept'
  <2>1. SUFFICES ASSUME ~overlapped PROVE CooldownsKept'
    BY <1>1 DEF CooldownsKept
  <2>2. Evaluating' = {}
    BY <1>10, <2>1 DEF IndInv, OneEvaluation
  <2>3. \A a \in fired : Remembers(tasks[l].snap, a)
    BY <1>10, <2>1 DEF IndInv, CooldownsKept
  <2>4. \A a \in fired : Remembers(last', a)
    BY <1>1, <2>3 DEF Remembers, WriteBack
  <2> QED
    BY <1>1, <2>2, <2>4 DEF CooldownsKept, Remembers
<1> QED
  BY <1>4, <1>5, <1>6, <1>7, <1>8, <1>9, <1>11, <1>12 DEF IndInv, NothingLost

\* log: every hook is called for every alert the call still holds, panicking or not.
LEMMA LogHooksStep == ASSUME IndInv, NEW l \in Loggers, LogHooks(l) PROVE IndInv'
<1>1. /\ tasks[l].pc = "hooks" /\ handed' = handed \cup (tasks[l].alerts \X Hooks)
      /\ UNCHANGED <<now, entries, nextId, rules, changes, last, fired, logged, overlapped>>
  BY DEF LogHooks, Dispatched
<1>2. DOMAIN tasks = Loggers
  BY DEF IndInv, TasksOK
<1>3. /\ tasks'[l] = [pc |-> "done"] /\ DOMAIN tasks' = Loggers
      /\ \A m \in Loggers : m # l => tasks'[m] = tasks[m]
  BY <1>2 DEF LogHooks
<1>4. TasksOK'
  BY <1>1, <1>3 DEF IndInv, TasksOK, TaskOK
<1>5. TypeOK'
  <2>1. \A m \in Loggers : tasks'[m].pc \in {"unused", "rules", "rule", "hooks", "done"}
    BY <1>4 DEF TasksOK, TaskOK
  <2> QED
    BY <1>1, <2>1 DEF IndInv, NothingLost, TypeOK
<1>6. SinkOK' /\ SinkKeepsNewest' /\ RapidDenialsJustified'
  BY <1>1 DEF IndInv, NothingLost, SinkOK, SinkKeepsNewest, RapidDenialsJustified
<1>7. \A a \in fired : a.by = l => \A h \in Hooks : <<a, h>> \in handed'
  BY <1>1 DEF IndInv, AlertsHeld
<1>8. AlertsReachHooks'
  <2>1. \A m \in Loggers : m # l /\ tasks[m].pc = "done" =>
            \A a \in fired : a.by = m => \A h \in Hooks : <<a, h>> \in handed'
    BY <1>1 DEF IndInv, NothingLost, AlertsReachHooks
  <2> QED
    BY <1>1, <1>3, <1>7, <2>1 DEF AlertsReachHooks
<1>9. CooldownWhenSequential'
  BY <1>1 DEF IndInv, CooldownWhenSequential, CooldownBetween
<1>10. AlertsHeld'
  <2>1. \A a \in fired : a.by \in Loggers
    BY DEF IndInv, NothingLost, TypeOK, AuditAlert
  <2> QED
    BY <1>1, <1>3, <2>1 DEF IndInv, AlertsHeld
<1>11. Evaluating' = Evaluating /\ l \notin Evaluating
  BY <1>1, <1>3 DEF Evaluating
<1>12. OneEvaluation'
  BY <1>1, <1>11 DEF IndInv, OneEvaluation
<1>13. CooldownsKept'
  <2>1. \A m \in Evaluating : tasks'[m].snap = tasks[m].snap
    BY <1>3, <1>11 DEF Evaluating
  <2> QED
    BY <1>1, <1>11, <2>1 DEF IndInv, CooldownsKept, Remembers
<1> QED
  BY <1>4, <1>5, <1>6, <1>8, <1>9, <1>10, <1>12, <1>13 DEF IndInv, NothingLost

\* evaluate: a rule that fires is out of its cooldown, so it is a cooldown later than
\* every alert of its id the copy remembers.
LEMMA FiresLater ==
    ASSUME NEW rule \in RuleSet, NEW snap, NEW at \in Nat, \A r \in DOMAIN snap : snap[r] \in Nat,
           ~CoolingDown(rule, snap, at), NEW a, a.at \in Nat, a.rule.id = rule.id, Remembers(snap, a)
    PROVE  a.at <= at /\ at - a.at >= rule.cooldown
<1>1. rule.id \in DOMAIN snap /\ a.at <= snap[rule.id] /\ snap[rule.id] \in Nat
  BY DEF Remembers
<1>2. ~(at - snap[rule.id] < 0) /\ ~(at - snap[rule.id] < rule.cooldown)
  BY <1>1 DEF CoolingDown
<1>3. rule.cooldown \in Nat
  BY RuleAssumption DEF AuditRule
<1> QED
  BY <1>1, <1>2, <1>3

\* evaluate: one rule, fired or not.
LEMMA EvalRuleStep == ASSUME IndInv, NEW l \in Loggers, EvalRule(l) PROVE IndInv'
<1> DEFINE t == tasks[l]
<1>1. PICK p \in DOMAIN t.todo :
        LET rule == t.todo[p]
            hit == rule.enabled /\ ~CoolingDown(rule, t.snap, t.at) /\ Matched(rule, t.entry, t.at)
            alert == [rule |-> rule, subject |-> t.entry.subject, at |-> t.at, by |-> l]
        IN  /\ \A q \in DOMAIN t.todo : p <= q
            /\ tasks' = [tasks EXCEPT ![l] =
                   [pc |-> "rule", entry |-> t.entry, at |-> t.at,
                    todo |-> Restrict(t.todo, DOMAIN t.todo \ {p}),
                    snap |-> IF hit THEN Noted(t.snap, rule.id, t.at) ELSE t.snap,
                    alerts |-> IF hit THEN t.alerts \cup {alert} ELSE t.alerts]]
            /\ fired' = IF hit THEN fired \cup {alert} ELSE fired
  BY DEF EvalRule
<1> DEFINE rule == t.todo[p]
           hit == rule.enabled /\ ~CoolingDown(rule, t.snap, t.at) /\ Matched(rule, t.entry, t.at)
           alert == [rule |-> rule, subject |-> t.entry.subject, at |-> t.at, by |-> l]
           snap2 == IF hit THEN Noted(t.snap, rule.id, t.at) ELSE t.snap
           alerts2 == IF hit THEN t.alerts \cup {alert} ELSE t.alerts
<1>2. /\ tasks' = [tasks EXCEPT ![l] =
             [pc |-> "rule", entry |-> t.entry, at |-> t.at,
              todo |-> Restrict(t.todo, DOMAIN t.todo \ {p}), snap |-> snap2, alerts |-> alerts2]]
      /\ fired' = IF hit THEN fired \cup {alert} ELSE fired
  BY <1>1
<1>3. t.pc = "rule" /\ UNCHANGED <<now, entries, nextId, rules, changes, last, handed, logged, overlapped>>
  BY DEF EvalRule
<1>4. /\ t.entry \in AuditEntry /\ rule \in RuleSet /\ t.at \in 0..now
      /\ \A q \in DOMAIN t.todo : t.todo[q] \in RuleSet
      /\ \A r \in DOMAIN t.snap : t.snap[r] \in 0..now
  BY <1>3 DEF IndInv, TasksOK, TaskOK
<1>5. /\ now \in 0..MaxNow /\ now \in Nat /\ nextId \in Nat /\ fired \subseteq AuditAlert
      /\ DOMAIN tasks = Loggers
  BY AuditAssumption DEF IndInv, NothingLost, TypeOK, TasksOK
<1>6. t.at \in Nat /\ \A r \in DOMAIN t.snap : t.snap[r] \in Nat
  BY <1>4, <1>5
<1>7. alert \in AuditAlert
  BY <1>4, <1>6 DEF AuditAlert, AuditEntry
<1>8. alert.rule = rule /\ alert.at = t.at /\ alert.by = l /\ alert.subject = t.entry.subject
  OBVIOUS
<1>9. \A r \in DOMAIN snap2 : snap2[r] \in 0..now
  BY <1>4 DEF Noted
<1>10. hit => /\ \A r \in DOMAIN t.snap : r # rule.id => r \in DOMAIN snap2 /\ snap2[r] = t.snap[r]
              /\ rule.id \in DOMAIN snap2 /\ snap2[rule.id] = t.at
  BY DEF Noted
<1>11. hit => ~CoolingDown(rule, t.snap, t.at) /\ Matched(rule, t.entry, t.at)
  OBVIOUS
<1>12. ~hit => snap2 = t.snap /\ fired' = fired /\ alerts2 = t.alerts
  BY <1>2
<1>13. hit => fired' = fired \cup {alert} /\ alerts2 = t.alerts \cup {alert}
  BY <1>2
<1> HIDE DEF alert, hit, snap2, alerts2, rule
<1>14. /\ tasks'[l] = [pc |-> "rule", entry |-> t.entry, at |-> t.at,
                       todo |-> Restrict(t.todo, DOMAIN t.todo \ {p}), snap |-> snap2, alerts |-> alerts2]
       /\ DOMAIN tasks' = Loggers
       /\ \A m \in Loggers : m # l => tasks'[m] = tasks[m]
  BY <1>2, <1>5
<1>15. fired' \subseteq AuditAlert
  BY <1>5, <1>7, <1>12, <1>13
<1>16. TasksOK'
  <2>1. \A q \in DOMAIN Restrict(t.todo, DOMAIN t.todo \ {p}) :
            Restrict(t.todo, DOMAIN t.todo \ {p})[q] \in RuleSet
    BY <1>4 DEF Restrict
  <2>2. TaskOK(tasks[l])'
    <3> HIDE DEF t
    <3> QED
      BY <1>3, <1>4, <1>9, <1>14, <2>1 DEF TaskOK
  <2>3. \A m \in Loggers : m # l => TaskOK(tasks[m])'
    BY <1>3, <1>14 DEF IndInv, TasksOK, TaskOK
  <2> QED
    BY <1>14, <2>2, <2>3 DEF TasksOK
<1>17. TypeOK'
  <2>1. \A m \in Loggers : tasks'[m].pc \in {"unused", "rules", "rule", "hooks", "done"}
    BY <1>16 DEF TasksOK, TaskOK
  <2> QED
    BY <1>3, <1>15, <2>1 DEF IndInv, NothingLost, TypeOK
<1>18. SinkOK' /\ SinkKeepsNewest'
  BY <1>3 DEF IndInv, NothingLost, SinkOK, SinkKeepsNewest
<1>19. RapidDenialsJustified'
  <2> DEFINE Ever(a) == {e \in logged : /\ e.subject = a.subject /\ ~e.granted
                                       /\ e.at >= a.at - a.rule.condition.window}
  <2>1. \A a \in fired : a.rule.condition.kind = "RapidDenials" =>
            Cardinality(Ever(a)) >= a.rule.condition.min_count
    BY DEF IndInv, NothingLost, RapidDenialsJustified
  <2>2. ASSUME hit, rule.condition.kind = "RapidDenials"
        PROVE  Cardinality(Ever(alert)) >= rule.condition.min_count
    <3> DEFINE since == t.at - rule.condition.window
               n == Count([subject |-> t.entry.subject, granted |-> FALSE, since |-> since])
    <3>1. rule.condition.window \in Nat /\ rule.condition.min_count \in Nat /\ since \in Int
      BY <1>4, <1>6, <2>2, RuleAssumption
    <3>2. n >= rule.condition.min_count
      BY <1>11, <2>2 DEF Matched
    <3>3. SinkOK /\ SinkKeepsNewest
      BY DEF IndInv, NothingLost
    <3>4. Ever(alert) = {e \in logged : e.subject = t.entry.subject /\ ~e.granted /\ e.at >= since}
      BY <1>8
    <3>5. n <= Cardinality(Ever(alert)) /\ n \in Nat
      <4> HIDE DEF since, t
      <4> QED
        BY <1>5, <3>1, <3>3, <3>4, CountBounded
    <3>6. Cardinality(Ever(alert)) \in Nat
      <4>1. Ever(alert) \in SUBSET logged /\ IsFiniteSet(logged)
        BY <3>3 DEF SinkOK
      <4> HIDE DEF Ever
      <4> QED
        BY <4>1, FS_Subset, FS_CardinalityType
    <3> HIDE DEF n, Ever
    <3> QED
      BY <3>1, <3>2, <3>5, <3>6
  <2>3. \A a \in fired' : a.rule.condition.kind = "RapidDenials" =>
            Cardinality(Ever(a)) >= a.rule.condition.min_count
    <3> HIDE DEF Ever
    <3> QED
      BY <1>8, <1>12, <1>13, <2>1, <2>2
  <2> QED
    BY <1>3, <2>3 DEF RapidDenialsJustified
<1>20. AlertsReachHooks'
  BY <1>3, <1>8, <1>12, <1>13, <1>14 DEF IndInv, NothingLost, AlertsReachHooks
<1>21. AlertsHeld'
  <2>1. ASSUME NEW a \in fired
        PROVE  tasks'[a.by].pc \in {"rule", "hooks", "done"} /\ (tasks'[a.by].pc # "done" => a \in tasks'[a.by].alerts)
    <3>1. a.by \in Loggers
      BY <1>5 DEF AuditAlert
    <3> QED
      BY <1>3, <1>12, <1>13, <1>14, <3>1 DEF IndInv, AlertsHeld
  <2>2. hit => tasks'[alert.by].pc = "rule" /\ alert \in tasks'[alert.by].alerts
    BY <1>8, <1>13, <1>14
  <2> QED
    BY <1>12, <1>13, <2>1, <2>2 DEF AlertsHeld
<1>22. Evaluating' = Evaluating /\ l \in Evaluating
  BY <1>3, <1>14 DEF Evaluating
<1>23. OneEvaluation'
  BY <1>3, <1>22 DEF IndInv, OneEvaluation
<1>24. ASSUME ~overlapped, hit, NEW a \in fired, a.rule.id = rule.id
       PROVE  a.at <= t.at /\ t.at - a.at >= rule.cooldown
  <2>1. Remembers(t.snap, a)
    BY <1>22, <1>24 DEF IndInv, CooldownsKept
  <2>2. a.at \in Nat
    BY <1>5 DEF AuditAlert
  <2> HIDE DEF t
  <2> QED
    BY <1>4, <1>6, <1>11, <1>24, <2>1, <2>2, FiresLater
<1>25. CooldownWhenSequential'
  <2>1. SUFFICES ASSUME ~overlapped, NEW a \in fired', NEW b \in fired', a.rule.id = b.rule.id, a # b
                 PROVE  a.at - b.at >= a.rule.cooldown \/ b.at - a.at >= b.rule.cooldown
    BY <1>3 DEF CooldownWhenSequential, CooldownBetween
  <2>2. CASE a \in fired /\ b \in fired
    BY <2>1, <2>2 DEF IndInv, CooldownWhenSequential, CooldownBetween
  <2>3. CASE hit /\ a = alert /\ b \in fired
    BY <1>8, <1>24, <2>1, <2>3
  <2>4. CASE hit /\ b = alert /\ a \in fired
    BY <1>8, <1>24, <2>1, <2>4
  <2> QED
    BY <1>12, <1>13, <2>1, <2>2, <2>3, <2>4
<1>26. CooldownsKept'
  <2>1. SUFFICES ASSUME ~overlapped, NEW a \in fired' PROVE Remembers(tasks'[l].snap, a)
    <3>1. ~overlapped => Evaluating' = {l}
      BY <1>22 DEF IndInv, OneEvaluation
    <3> QED
      BY <1>3, <3>1 DEF CooldownsKept, Remembers
  <2>2. tasks'[l].snap = snap2
    BY <1>14
  <2>3. CASE ~hit
    BY <1>12, <1>22, <2>1, <2>2, <2>3 DEF IndInv, CooldownsKept
  <2>4. CASE hit /\ a = alert
    BY <1>6, <1>8, <1>10, <2>2, <2>4 DEF Remembers
  <2>5. CASE hit /\ a \in fired
    <3>1. Remembers(t.snap, a)
      BY <1>22, <2>1, <2>5 DEF IndInv, CooldownsKept
    <3>2. CASE a.rule.id = rule.id
      BY <1>10, <1>24, <2>1, <2>2, <2>5, <3>2 DEF Remembers
    <3>3. CASE a.rule.id # rule.id
      BY <1>10, <2>2, <2>5, <3>1, <3>3 DEF Remembers
    <3> QED
      BY <3>2, <3>3
  <2> QED
    BY <1>13, <2>1, <2>3, <2>4, <2>5
<1> QED
  BY <1>16, <1>17, <1>18, <1>19, <1>20, <1>21, <1>23, <1>25, <1>26 DEF IndInv, NothingLost

(* -------------------------------- the theorems ------------------------------ *)

\* Every step of every task keeps the invariant.
LEMMA IndStep == IndInv /\ [Next]_vars => IndInv'
<1> SUFFICES ASSUME IndInv, [Next]_vars PROVE IndInv'
  OBVIOUS
<1>1. CASE UNCHANGED vars
  <2> USE <1>1 DEF vars
  <2>1. TypeOK' /\ SinkOK' /\ SinkKeepsNewest' /\ RapidDenialsJustified' /\ AlertsReachHooks' /\ TasksOK'
    BY DEF IndInv, NothingLost, TypeOK, SinkOK, SinkKeepsNewest, RapidDenialsJustified,
           AlertsReachHooks, TasksOK, TaskOK
  <2>2. CooldownWhenSequential' /\ AlertsHeld' /\ OneEvaluation' /\ CooldownsKept'
    BY DEF IndInv, CooldownWhenSequential, CooldownBetween, AlertsHeld, OneEvaluation,
           CooldownsKept, Evaluating, Remembers
  <2> QED
    BY <2>1, <2>2 DEF IndInv, NothingLost
<1>2. ASSUME NEW l \in Loggers, Step(l) PROVE IndInv'
  BY <1>2, LogAppendStep, EvalStartStep, EvalRuleStep, EvalStoreStep, LogHooksStep DEF Step
<1>3. CASE \E r \in RuleSet : AddRule(r) \/ RemoveRule(r.id)
  BY <1>3, RuleTableStep
<1>4. CASE Tick
  BY <1>4, TickStep
<1> QED
  BY <1>1, <1>2, <1>3, <1>4 DEF Next

\* Hence it holds throughout.
LEMMA Inductive == Spec => []IndInv
<1> QED
  BY IndInit, IndStep, PTL DEF Spec

\* InMemoryAuditSink and log: the sink loses nothing but its oldest entries, a
\* RapidDenials alert always has the denials its rule asks for behind it, and a call
\* that returned has handed every alert to every hook, whatever calls run at once,
\* whatever rules come and go and whichever hooks panic.
THEOREM TrailIsComplete == Spec => []NothingLost
<1>1. IndInv => NothingLost
  BY DEF IndInv
<1> QED
  BY <1>1, Inductive, PTL

\* evaluate: as long as no two evaluations overlap, two alerts of one rule id are a
\* cooldown apart, through every removal and re-addition of rules.
THEOREM CooldownsHoldSequentially == Spec => []CooldownWhenSequential
<1>1. IndInv => CooldownWhenSequential
  BY DEF IndInv
<1> QED
  BY <1>1, Inductive, PTL
=============================================================================

---------------------------- MODULE AuditPipeline ----------------------------
(* The audit pipeline (src/src/rbac/audit.rs): the bounded in-memory sink, the
   rule engine with its cooldown table, the logger that appends an entry, has the
   rules evaluated and hands the alerts to the hooks, and the analyzer.

   Every log call is a task. The locks are tokio RwLocks held for one statement
   each, so a step is the code between two of them. An entry's verdict is its
   risk and trust penalty in hundredths; an entry without one has risk -1. *)
EXTENDS Integers, Sequences, FiniteSets, SequencesExt

CONSTANTS
    Loggers,     \* tasks; each logs one entry
    Subjects,
    Risks,       \* risks of the entries logged, -1 for an entry without verdict
    RuleSet,     \* the rules the host adds: [id, enabled, condition, cooldown]
    Hooks,       \* registered alert hooks
    Panicking,   \* the hooks that panic
    MaxEntries,  \* max_entries of the sink
    MaxChanges,  \* bound on changes of the rule table
    MaxNow       \* bound on the clock

ASSUME AuditAssumption ==
    /\ MaxEntries \in Nat /\ MaxNow \in Nat /\ MaxChanges \in Nat /\ Panicking \subseteq Hooks
    /\ Risks \subseteq Int

AuditEntry ==
    [id : Nat, subject : Subjects, granted : BOOLEAN, risk : Int, penalty : Int, at : Nat]

AuditRule == [id : STRING, enabled : BOOLEAN, cooldown : Nat, condition : {r.condition : r \in RuleSet}]

AuditAlert == [rule : RuleSet, subject : Subjects, at : Nat, by : Loggers]

ASSUME RuleAssumption ==
    /\ RuleSet \subseteq AuditRule
    /\ \A r \in RuleSet : r.condition.kind = "RapidDenials" =>
           r.condition.window \in Nat /\ r.condition.min_count \in Nat

VARIABLES
    now,
    entries,    \* the sink: oldest first
    nextId,
    rules,      \* the engine's rules, each at the position it was added at
    changes,    \* changes of the rule table so far; the next rule's position
    last,       \* last_triggered: rule id |-> time
    tasks,      \* the task in each slot
    fired,      \* history: alerts, [rule, subject, at, by]
    handed,     \* history: <<alert, hook>> pairs a hook was called for
    logged,     \* history: every entry ever appended
    overlapped  \* history: two evaluations have run at once

vars == <<now, entries, nextId, rules, changes, last, tasks, fired, handed, logged, overlapped>>

Unused == [pc |-> "unused"]
Evaluating == {l \in Loggers : tasks[l].pc = "rule"}

\* Mutant: eviction starts one entry late.
AppendToLate(sink, e) ==
    LET grown == Append(sink, e)
    IN  IF Len(grown) > MaxEntries + 1 THEN Tail(grown) ELSE grown

\* The sink's write lock is held over the numbering, the push and the eviction.
AppendTo(sink, e) ==
    LET grown == Append(sink, e)
    IN  IF Len(grown) > MaxEntries THEN SubSeq(grown, Len(grown) - MaxEntries + 1, Len(grown)) ELSE grown

\* Nothing was logged, or one denial before any rule was added.
Init ==
    /\ \/ entries = <<>> /\ logged = {} /\ nextId = 1
       \/ \E s \in Subjects :
            LET e == [id |-> 1, subject |-> s, granted |-> FALSE, risk |-> -1, penalty |-> 0, at |-> 0]
            IN  entries = AppendTo(<<>>, e) /\ logged = {e} /\ nextId = 2
    /\ now = 0 /\ rules = <<>> /\ changes = 0 /\ last = <<>>
    /\ tasks = [l \in Loggers |-> Unused]
    /\ fired = {} /\ handed = {} /\ overlapped = FALSE

(* ------------------------------ entries, filters -------------------------- *)

IsDenied(e) == ~e.granted

IsHighRisk(e) == e.risk >= 60

RiskOf(e) == IF e.risk < 0 THEN 0 ELSE e.risk

\* A filter names the fields it restricts; an absent field matches everything.
Given(filter, field, ok) == field \in DOMAIN filter => ok

MatchesFilter(e, filter) ==
    /\ Given(filter, "subject", e.subject = filter.subject)
    /\ Given(filter, "granted", e.granted = filter.granted)
    /\ Given(filter, "since", e.at >= filter.since)
    /\ Given(filter, "until", e.at <= filter.until)
    /\ Given(filter, "min_risk", RiskOf(e) >= filter.min_risk)

Count(filter) == Cardinality({i \in DOMAIN entries : MatchesFilter(entries[i], filter)})

\* query: the newest first (entries of one second in any order the stable sort
\* leaves them), cut to the filter's limit.
Query(filter) ==
    LET found == SortSeq(SelectSeq(entries, LAMBDA e : MatchesFilter(e, filter)),
                         LAMBDA a, b : a.at > b.at)
    IN  IF "limit" \in DOMAIN filter /\ filter.limit < Len(found)
        THEN SubSeq(found, 1, filter.limit) ELSE found

\* The conditions that look at one entry; RapidDenials needs the sink and is
\* false here, inside a Composite too.
EvaluateSimple(c, e) ==
    CASE c.kind = "Denied" -> IsDenied(e)
      [] c.kind = "HighRisk" -> e.risk >= 0 /\ e.risk >= c.threshold
      [] c.kind = "TrustBelow" -> e.risk >= 0 /\ 100 - e.penalty <= c.threshold
      [] c.kind = "RapidDenials" -> FALSE

Evaluate(c, e) ==
    CASE c.kind = "All" -> \A i \in DOMAIN c.conditions : EvaluateSimple(c.conditions[i], e)
      [] c.kind = "Any" -> \E i \in DOMAIN c.conditions : EvaluateSimple(c.conditions[i], e)
      [] OTHER -> EvaluateSimple(c, e)

(* ------------------------------- AuditLogger ------------------------------ *)

\* log: the entry is appended first. It carries the time its caller stamped.
LogAppend(l) ==
    /\ tasks[l].pc = "unused"
    /\ \E s \in Subjects, g \in BOOLEAN, r \in Risks :
         LET e == [id |-> nextId, subject |-> s, granted |-> g, risk |-> r,
                   penalty |-> RiskOf([risk |-> r]), at |-> now]
         IN  /\ entries' = AppendTo(entries, e)
             /\ logged' = logged \cup {e}
             /\ tasks' = [tasks EXCEPT ![l] = [pc |-> "rules", entry |-> e]]
    /\ nextId' = nextId + 1
    /\ UNCHANGED <<now, rules, changes, last, fired, handed, overlapped>>

\* evaluate: the rules are copied, then the cooldown table, and the clock is read
\* once for all rules. No operation writes both tables, so one step does it.
EvalStart(l) ==
    /\ tasks[l].pc = "rules"
    /\ tasks' = [tasks EXCEPT ![l] = [pc |-> "rule", entry |-> @.entry, todo |-> rules,
                                      snap |-> last, at |-> now, alerts |-> {}]]
    /\ overlapped' = (overlapped \/ Evaluating # {})
    /\ UNCHANGED <<now, entries, nextId, rules, changes, last, fired, handed, logged>>

\* Mutant: the cooldown is compared with the clock, not with the time elapsed.
CoolingDownAbsolute(rule, snap, at) == rule.id \in DOMAIN snap /\ at < rule.cooldown

CoolingDown(rule, snap, at) ==
    /\ rule.id \in DOMAIN snap
    /\ at - snap[rule.id] < 0 \/ at - snap[rule.id] < rule.cooldown

\* Mutant: grants are counted with the denials.
MatchedAll(rule, e, at) ==
    IF rule.condition.kind = "RapidDenials"
    THEN Count([subject |-> e.subject, since |-> at - rule.condition.window]) >= rule.condition.min_count
    ELSE Evaluate(rule.condition, e)

\* RapidDenials counts the subject's denials the sink still holds, the entry
\* under evaluation among them.
Matched(rule, e, at) ==
    IF rule.condition.kind = "RapidDenials"
    THEN Count([subject |-> e.subject, granted |-> FALSE, since |-> at - rule.condition.window])
           >= rule.condition.min_count
    ELSE Evaluate(rule.condition, e)

Noted(snap, id, at) == [r \in DOMAIN snap \cup {id} |-> IF r = id THEN at ELSE snap[r]]

\* The next rule; the count of RapidDenials awaits the sink, so each rule is a step.
EvalRule(l) ==
    LET t == tasks[l] IN
    /\ t.pc = "rule"
    /\ \E p \in DOMAIN t.todo :
         LET rule == t.todo[p]
             hit == rule.enabled /\ ~CoolingDown(rule, t.snap, t.at) /\ Matched(rule, t.entry, t.at)
             alert == [rule |-> rule, subject |-> t.entry.subject, at |-> t.at, by |-> l]
         IN  /\ \A q \in DOMAIN t.todo : p <= q
             /\ tasks' = [tasks EXCEPT ![l] =
                    [pc |-> "rule", entry |-> t.entry, at |-> t.at,
                     todo |-> Restrict(t.todo, DOMAIN t.todo \ {p}),
                     snap |-> IF hit THEN Noted(t.snap, rule.id, t.at) ELSE t.snap,
                     alerts |-> IF hit THEN t.alerts \cup {alert} ELSE t.alerts]]
             /\ fired' = IF hit THEN fired \cup {alert} ELSE fired
    /\ UNCHANGED <<now, entries, nextId, rules, changes, last, handed, logged, overlapped>>

\* The whole snapshot is written back, the entries that did not fire too.
WriteBack(table, snap) ==
    [r \in DOMAIN table \cup DOMAIN snap |-> IF r \in DOMAIN snap THEN snap[r] ELSE table[r]]

EvalStore(l) ==
    /\ tasks[l].pc = "rule" /\ DOMAIN tasks[l].todo = {}
    /\ last' = WriteBack(last, tasks[l].snap)
    /\ tasks' = [tasks EXCEPT ![l] = [pc |-> "hooks", alerts |-> @.alerts]]
    /\ UNCHANGED <<now, entries, nextId, rules, changes, fired, handed, logged, overlapped>>

\* Mutant: a panic ends the dispatch, the hooks after it are never called.
DispatchedUntilPanic(alerts) == alerts \X (Hooks \ Panicking)

\* Each alert goes to every hook; a panic is caught and the others still run.
Dispatched(alerts) == alerts \X Hooks

LogHooks(l) ==
    /\ tasks[l].pc = "hooks"
    /\ handed' = handed \cup Dispatched(tasks[l].alerts)
    /\ tasks' = [tasks EXCEPT ![l] = [pc |-> "done"]]
    /\ UNCHANGED <<now, entries, nextId, rules, changes, last, fired, logged, overlapped>>

(* ----------------------------- the rule table ----------------------------- *)

AddRule(r) ==
    /\ rules' = Noted(rules, changes, r)
    /\ changes < MaxChanges /\ changes' = changes + 1
    /\ UNCHANGED <<now, entries, nextId, last, tasks, fired, handed, logged, overlapped>>

\* Every copy goes; the cooldown table is left alone.
RemoveRule(id) ==
    /\ \E p \in DOMAIN rules : rules[p].id = id
    /\ rules' = Restrict(rules, {p \in DOMAIN rules : rules[p].id # id})
    /\ changes < MaxChanges /\ changes' = changes + 1
    /\ UNCHANGED <<now, entries, nextId, last, tasks, fired, handed, logged, overlapped>>

Tick ==
    /\ now < MaxNow /\ now' = now + 1
    /\ UNCHANGED <<entries, nextId, rules, changes, last, tasks, fired, handed, logged, overlapped>>

Step(l) ==
    LogAppend(l) \/ EvalStart(l) \/ EvalRule(l) \/ EvalStore(l) \/ LogHooks(l)

Next ==
    \/ \E l \in Loggers : Step(l)
    \/ \E r \in RuleSet : AddRule(r) \/ RemoveRule(r.id)
    \/ Tick

Spec == Init /\ [][Next]_vars

(* -------------------------------- the analyzer ---------------------------- *)

OfSubject(seq, s) == SelectSeq(seq, LAMBDA e : e.subject = s)
Denials(seq) == SelectSeq(seq, IsDenied)

\* Mutant: the denials are counted over all subjects.
SubjectStatsShared(seq, s) ==
    [total |-> Len(OfSubject(seq, s)), denied |-> Len(Denials(seq)), risk |-> 0]

\* The counters the analyzer keeps per subject; the average is left as its sum.
SubjectStats(seq, s) ==
    [total |-> Len(OfSubject(seq, s)), denied |-> Len(Denials(OfSubject(seq, s))),
     risk |-> FoldLeft(LAMBDA n, e : n + RiskOf(e), 0, OfSubject(seq, s))]

Analyze(seq) ==
    [total |-> Len(seq), denied |-> Len(Denials(seq)), high_risk |-> Len(SelectSeq(seq, IsHighRisk)),
     by_subject |-> [s \in {seq[i].subject : i \in DOMAIN seq} |-> SubjectStats(seq, s)]]

(* -------------------------------- properties ------------------------------ *)

\* Types of the sink, the rules, the cooldown table and the tasks.
TypeOK ==
    /\ now \in 0..MaxNow /\ nextId \in Nat
    /\ \A i \in DOMAIN entries : entries[i] \in AuditEntry \cap logged
    /\ fired \subseteq AuditAlert
    /\ \A i \in DOMAIN rules : rules[i] \in RuleSet
    /\ \A r \in DOMAIN last : last[r] \in 0..now
    /\ \A l \in Loggers : tasks[l].pc \in {"unused", "rules", "rule", "hooks", "done"}

\* InMemoryAuditSink: concurrent appends lose nothing but the oldest: the sink
\* holds the newest MaxEntries entries, numbered without a gap.
SinkKeepsNewest ==
    /\ Len(entries) = IF nextId - 1 < MaxEntries THEN nextId - 1 ELSE MaxEntries
    /\ \A i \in DOMAIN entries : entries[i].id = nextId - 1 - Len(entries) + i

CooldownBetween(a, b) ==
    a.rule.id = b.rule.id /\ a # b =>
        a.at - b.at >= a.rule.cooldown \/ b.at - a.at >= b.rule.cooldown

\* evaluate: as long as no two evaluations ran at once, the alerts of a rule id
\* are a cooldown apart, however rules were removed and added again in between.
CooldownWhenSequential == ~overlapped => \A a, b \in fired : CooldownBetween(a, b)

\* evaluate: the alerts of a rule id are a cooldown apart.
CooldownRespected == \A a, b \in fired : CooldownBetween(a, b)

\* evaluate: RapidDenials never fires on fewer denials of the subject than its
\* rule asks for, in its window, the entry being logged included.
RapidDenialsJustified ==
    \A a \in fired :
        a.rule.condition.kind = "RapidDenials" =>
            Cardinality({e \in logged : /\ e.subject = a.subject /\ ~e.granted
                                        /\ e.at >= a.at - a.rule.condition.window})
              >= a.rule.condition.min_count

\* log: when the call returns, every alert it fired has been handed to every hook,
\* also past one that panics, and none is lost to a concurrent call.
AlertsReachHooks ==
    \A l \in Loggers : tasks[l].pc = "done" =>
        \A a \in fired : a.by = l => \A h \in Hooks : <<a, h>> \in handed

\* DefaultAuditAnalyzer: what it reports per subject adds up to its totals, over
\* every content the sink can have, newest first or not.
AnalysisAddsUp ==
    LET a == Analyze(Query([since |-> 0]))
        Total(f(_)) == FoldLeft(LAMBDA n, s : n + f(a.by_subject[s]), 0, SetToSeq(DOMAIN a.by_subject))
    IN  /\ Total(LAMBDA x : x.total) = a.total
        /\ Total(LAMBDA x : x.denied) = a.denied
        /\ a.high_risk <= a.total

\* What log promises about the trail: the sink keeps the newest entries, an alert
\* is justified and reaches every hook.
NothingLost ==
    TypeOK /\ SinkKeepsNewest /\ RapidDenialsJustified /\ AlertsReachHooks

(* ----------------------- the inductive strengthening ---------------------- *)

\* The sink keeps entries that were logged, and there are finitely many of those.
SinkOK ==
    /\ entries \in Seq(AuditEntry) /\ \A i \in DOMAIN entries : entries[i] \in logged
    /\ logged \subseteq AuditEntry /\ IsFiniteSet(logged)

\* What a log call carries from one lock to the next.
TaskOK(t) ==
    /\ t.pc \in {"unused", "rules", "rule", "hooks", "done"}
    /\ t.pc \in {"rules", "rule"} => t.entry \in AuditEntry
    /\ t.pc = "rule" => /\ \A p \in DOMAIN t.todo : t.todo[p] \in RuleSet
                        /\ \A r \in DOMAIN t.snap : t.snap[r] \in 0..now
                        /\ t.at \in 0..now

TasksOK == DOMAIN tasks = Loggers /\ \A l \in Loggers : TaskOK(tasks[l])

\* A call holds the alerts it fired until it has handed them over.
AlertsHeld ==
    \A a \in fired : LET t == tasks[a.by] IN
        /\ t.pc \in {"rule", "hooks", "done"}
        /\ t.pc # "done" => a \in t.alerts

OneEvaluation == ~overlapped => \A l, m \in Evaluating : l = m

Remembers(table, a) == a.rule.id \in DOMAIN table /\ a.at <= table[a.rule.id]

\* Without an overlap every alert is in the cooldown table or, during an
\* evaluation, in the copy that will be written back.
CooldownsKept ==
    ~overlapped => \A a \in fired :
        /\ Evaluating = {} => Remembers(last, a)
        /\ \A l \in Evaluating : Remembers(tasks[l].snap, a)

IndInv ==
    /\ NothingLost /\ CooldownWhenSequential
    /\ SinkOK /\ TasksOK /\ AlertsHeld /\ OneEvaluation /\ CooldownsKept
=============================================================================

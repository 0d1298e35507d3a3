-------------------------------- MODULE Rules --------------------------------
(***************************************************************************)
(* The deterministic checks of app/rules.py over data/rules.json, as the   *)
(* tools of app/service.py ask them: scope, wage, payment timing,          *)
(* settlement and allegation, and the audit row of each call.              *)
(*                                                                         *)
(* Records hold amounts in thousandths of a dirham, checks speak of fils   *)
(* (hundredths).  A day is the number of days since 1 March of the year 0. *)
(* A call is one step: a check reads records only, and what interleaves    *)
(* around it is ControlPlane's matter.  Between calls the records change.  *)
(***************************************************************************)
EXTENDS Integers, Sequences, FiniteSets

CONSTANTS
  Records,  \* the contracts and WPS lines a worker may have over time
  Periods,  \* the months asked about, <<year, month>>
  None

Code == {"WAGE_SHORTFALL", "PAID_LATE", "SETTLEMENT_SHORTFALL", "RECORD",
         "ALLEGATION"}

\* WPS_FIELDS.  deduction 0 is no deduction.
Line == [period : Nat \X (1 .. 12), paid : Nat, paidOn : Nat \cup {None},
         deduction : Nat]

\* CONTRACT_FIELDS, with the lines that _load_worker adds.
Record == [zone : {"mainland", "DIFC", "ADGM"},
           category : {"private_sector", "domestic_worker"},
           basic : Nat, total : Nat,
           start : Nat, end : Nat \cup {None}, offer : Nat \cup {None},
           court : SUBSET (Nat \X (1 .. 12)), wps : Seq(Line)]

ASSUME RulesAssumption ==
  /\ Records \subseteq Record
  /\ Periods \subseteq Nat \X (1 .. 12)
  /\ \A p \in Periods : p[1] <= 9999  \* PERIOD of normalise.py
  /\ None \notin Nat \cup (Nat \X (1 .. 12))

VARIABLES
  worker,  \* the records of the worker the call is bound to
  answer   \* what the last call was answered

vars == <<worker, answer>>

-----------------------------------------------------------------------------
(* Dates and amounts. *)

Date(y, m, d) ==
  LET a == (14 - m) \div 12
      n == y - a
  IN d + (153 * (m + 12 * a - 3) + 2) \div 5
       + 365 * n + n \div 4 - n \div 100 + n \div 400

\* The first of the month after.
DueDate(p) == IF p[2] = 12 THEN Date(p[1] + 1, 1, 1)
              ELSE Date(p[1], p[2] + 1, 1)

\* To fils, a half up.
Money(x) == (x + 5) \div 10

-----------------------------------------------------------------------------
(* rules.json *)

TimingRule(id, from, to, day) ==
  [rule_id |-> id, from |-> from, to |-> to, late_after_day |-> day]

payment_timing ==
  <<TimingRule("WPS-598-2022", Date(2022, 1, 1), Date(2026, 5, 31), 15),
    TimingRule("WPS-340-2026", Date(2026, 6, 1), Date(9999, 12, 31), 1)>>

TransitionPeriods == {<<2026, 5>>}

Finding(code, rule, amount) ==
  [code |-> code, rule_id |-> rule, amount |-> amount,
   verified |-> code # "ALLEGATION"]

Result(check, status, tier, findings) ==
  [check |-> check, status |-> status, tier |-> tier, findings |-> findings]

\* An exception leaves _run.
Raised == Result("none", "raised", 0, {})

-----------------------------------------------------------------------------
(* The scope gate. *)

InRegime(w) == w.zone = "mainland" /\ w.category = "private_sector"

\* Mutant: the claims before a court are not looked at.
InScopeOfRegime(w, p) == InRegime(w)

InScope(w, p) == InRegime(w) /\ p \notin w.court

\* The zone is looked at before the category.
ScopeCheck(w) ==
  Result("scope", "out_of_scope",
         IF w.zone = "mainland" /\ w.category = "domestic_worker" THEN 2 ELSE 1,
         {})

HasLine(w, p) == \E i \in DOMAIN w.wps : w.wps[i].period = p

\* The first line of the month.
LineOf(w, p) ==
  w.wps[CHOOSE i \in DOMAIN w.wps :
          /\ w.wps[i].period = p
          /\ \A j \in 1 .. i - 1 : w.wps[j].period # p]

-----------------------------------------------------------------------------
(* The wage of one month. *)

\* Mutant: the amounts are compared as the records give them.
ShortRaw(w, l) == l.paid < w.total

Short(w, l) == Money(l.paid) < Money(w.total)

WageCheck(w, p) ==
  LET l == LineOf(w, p)
  IN CASE ~InScope(w, p) -> ScopeCheck(w)
       [] InScope(w, p) /\ ~HasLine(w, p) ->
            Result("wage", "needs_evidence", 1, {})
       [] OTHER ->
            IF ~Short(w, l) THEN Result("wage", "clear", 0, {})
            ELSE Result("wage", "discrepancy", IF l.deduction # 0 THEN 1 ELSE 0,
                        {Finding("WAGE_SHORTFALL", "CONTRACT-VS-WPS",
                                 Money(w.total) - Money(l.paid))})

-----------------------------------------------------------------------------
(* Payment timing. *)

Covering(day) == {i \in DOMAIN payment_timing :
                    payment_timing[i].from <= day /\ day <= payment_timing[i].to}

SelectTimingRule(day) ==
  payment_timing[CHOOSE i \in Covering(day) : \A j \in Covering(day) : i <= j]

\* late_after_day of the month of the due date.
Judge(rule, due, paidOn) ==
  LET late == paidOn - (due + rule.late_after_day - 1)
  IN IF late <= 0 THEN Result("timing", "clear", 0, {})
     ELSE Result("timing", "discrepancy", 0,
                 {Finding("PAID_LATE", rule.rule_id, late)})

\* Mutant: the rule in force on the day of the payment.
JudgeTimingByPayment(w, p) ==
  LET day == LineOf(w, p).paidOn
  IN IF Covering(day) = {} THEN Raised
     ELSE Judge(SelectTimingRule(day), DueDate(p), day)

\* The rule in force on the due date; LookupError if there is none.
JudgeTiming(w, p) ==
  IF Covering(DueDate(p)) = {} THEN Raised
  ELSE Judge(SelectTimingRule(DueDate(p)), DueDate(p), LineOf(w, p).paidOn)

TimingCheck(w, p) ==
  CASE ~InScope(w, p) -> ScopeCheck(w)
    [] InScope(w, p) /\ p \in TransitionPeriods ->
         Result("timing", "ambiguous", 2, {})
    [] OTHER ->
         IF ~HasLine(w, p) \/ LineOf(w, p).paidOn = None
         THEN Result("timing", "needs_evidence", 1, {})
         ELSE JudgeTiming(w, p)

-----------------------------------------------------------------------------
(* End of service. *)

Service(w) == w.end - w.start + 1

Least(a, b) == IF a <= b THEN a ELSE b

\* Mutant: the days after five years are added to the first rate.
GratuityDaysTwice(days) ==
  21 * days + (IF days > 1825 THEN 30 * (days - 1825) ELSE 0)

\* 365 times the days of wage that service earns.
GratuityDays(days) ==
  21 * Least(days, 1825) + (IF days > 1825 THEN 30 * (days - 1825) ELSE 0)

\* wage * earned / (30 * 365) in fils, a half up.  Both quotients are taken
\* first, with the 28 digits of a Decimal: where the sum is half a fils and
\* one of them is not exact, it may fall on either side.
Rounded(wage, earned) ==
  LET n == 2 * wage * earned
      exact == earned % 73 = 0 /\ wage % 3 = 0
  IN {(n + 10950) \div 21900} \cup
     (IF n % 21900 = 10950 /\ ~exact THEN {n \div 21900} ELSE {})

\* The amounts gratuity may return: one, but for the halves.
Gratuity(w) ==
  LET wage == Money(w.basic)
  IN IF Service(w) < 365 THEN {0}
     ELSE {Least(a, 24 * wage) : a \in Rounded(wage, GratuityDays(Service(w)))}

\* The comparison of the offer with an amount.
Compare(offered, calc) ==
  IF offered >= calc THEN Result("settlement", "clear", 0, {})
  ELSE Result("settlement", "discrepancy", 1,
              {Finding("SETTLEMENT_SHORTFALL", "EOS-FDL33-51", calc - offered)})

SettlementChecks(w) ==
  IF ~InScope(w, None) THEN {ScopeCheck(w)}
  ELSE IF w.end = None \/ w.offer = None
       THEN {Result("settlement", "needs_evidence", 1, {})}
       ELSE {Compare(Money(w.offer), calc) : calc \in Gratuity(w)}

-----------------------------------------------------------------------------
(* What the caller says. *)

Statement(w, p) ==
  {Finding("ALLEGATION", "CALLER-STATEMENT", 0)} \cup
  (IF HasLine(w, p) THEN {Finding("RECORD", "WPS-RECORD", 0)} ELSE {})

AllegationResult(w, p) ==
  IF ~InScope(w, p) THEN ScopeCheck(w)
  ELSE Result("allegation", "discrepancy", 2, Statement(w, p))

-----------------------------------------------------------------------------
(* The tools, of a caller whose case is in scope of the call (_run).  The  *)
(* exception of a rule is not caught: the call is answered 500, unaudited. *)

Answer(r) == answer' = r /\ UNCHANGED worker

check_wage == \E p \in Periods : Answer(WageCheck(worker, p))

check_payment_timing == \E p \in Periods : Answer(TimingCheck(worker, p))

check_settlement == \E r \in SettlementChecks(worker) : Answer(r)

record_allegation == \E p \in Periods : Answer(AllegationResult(worker, p))

\* The contract is given an end date a day later.
ServeOn ==
  /\ worker.end # None
  /\ worker' = [worker EXCEPT !.end = @ + 1] /\ worker' \in Records
  /\ UNCHANGED answer

Init == worker \in Records /\ answer = Result("none", "none", 0, {})

Next == \/ check_wage \/ check_payment_timing \/ check_settlement
        \/ record_allegation \/ ServeOn

Spec == Init /\ [][Next]_vars

-----------------------------------------------------------------------------
\* A caller whom the private-sector rules do not cover, or whose claim for the
\* month is before a court, is given no finding and no number, whichever
\* check is asked, and always a person.
NoNumberOutOfScope ==
  LET outside == worker.zone # "mainland" \/ worker.category = "domestic_worker"
      person(r) == r.findings = {} /\ r.tier > 0
  IN /\ outside => \A r \in SettlementChecks(worker) : person(r)
     /\ \A p \in Periods : outside \/ p \in worker.court =>
          /\ person(WageCheck(worker, p)) /\ person(TimingCheck(worker, p))
          /\ person(AllegationResult(worker, p))

LeapYear(y) == y % 4 = 0 /\ (y % 100 # 0 \/ y % 400 = 0)

MonthDays(p) == CASE p[2] \in {4, 6, 9, 11} -> 30
                  [] p[2] = 2 -> IF LeapYear(p[1]) THEN 29 ELSE 28
                  [] OTHER -> 31

\* The month whose due date lies on the change of resolutions is never judged
\* (docs/adr/D5), and every other month is judged by the resolution of its
\* own time: late after the 15th of the next month up to April 2026, after
\* the 1st from June 2026.  Only the months due before 2022, when there was
\* none, and the one due after the last day of the calendar have no answer.
TimingByLaw ==
  \A p \in Periods :
    LET r      == TimingCheck(worker, p)
        before == p[1] < 2026 \/ (p[1] = 2026 /\ p[2] < 5)
        first  == Date(p[1], p[2], 1) + MonthDays(p)
        late   == LineOf(worker, p).paidOn - first - (IF before THEN 14 ELSE 0)
    IN /\ r = Raised => \/ p[1] < 2021 \/ (p[1] = 2021 /\ p[2] < 12)
                        \/ p = <<9999, 12>>
       /\ r.status \in {"clear", "discrepancy"} =>
            /\ p # <<2026, 5>>
            /\ r.findings = IF late <= 0 THEN {}
                 ELSE {Finding("PAID_LATE", IF before THEN "WPS-598-2022"
                                            ELSE "WPS-340-2026", late)}

\* The records with n fils more in every line, and in the offer.
Paying(w, n) ==
  [w EXCEPT !.wps = [i \in DOMAIN w.wps |->
                       [w.wps[i] EXCEPT !.paid = @ + 10 * n]]]

Offering(w, n) == [w EXCEPT !.offer = @ + 10 * n]

\* What a check says is missing is missing: made up, the same check is clear,
\* and a fils less leaves it open.
GapCloses ==
  /\ \A p \in Periods : \A f \in WageCheck(worker, p).findings :
       /\ WageCheck(Paying(worker, f.amount), p).status = "clear"
       /\ WageCheck(Paying(worker, f.amount - 1), p).status = "discrepancy"
  /\ \A r \in SettlementChecks(worker) : \A f \in r.findings :
       LET clear(n) == \E c \in SettlementChecks(Offering(worker, n)) :
                         c.status = "clear"
       IN clear(f.amount) /\ (Cardinality(Gratuity(worker)) = 1 => ~clear(f.amount - 1))

\* A day more of service never costs the worker anything and adds at most a
\* day's share of thirty days' wage, also across the fifth year and the cap;
\* only the first year, when 21 days' wage are earned at once, is a step.
GratuityGrows ==
  [][ServeOn => \A a \in Gratuity(worker), b \in Gratuity(worker') :
       /\ a <= b /\ b <= 24 * Money(worker.basic)
       /\ a > 0 => b - a <= Money(worker.basic) \div 365 + 2]_worker
=============================================================================

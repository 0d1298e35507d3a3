----------------------------- MODULE Rules_proofs -----------------------------
(***************************************************************************)
(* The checks of module Rules, proved of every record and every month the  *)
(* adapters and the patterns of the edge admit: the calendar needs no      *)
(* table of months, the wage no bound, the contract no length.             *)
(*                                                                         *)
(* The invariant of a step is only that the records are records.  The rest *)
(* is arithmetic: that the due date of a month is the day after its last,  *)
(* that days follow months, and that the gratuity, which is rounded where  *)
(* a half may fall either way, never falls as service grows.               *)
(***************************************************************************)
EXTENDS Rules, FiniteSetTheorems, TLAPS

\* The call is always bound to one of the records a worker may have.
Bound == worker \in Records

\* No check writes the records it reads.
LEMMA RecordsStay == Spec => []Bound
<1>1. Init => Bound
  BY DEF Init, Bound
<1>2. Bound /\ [Next]_vars => Bound'
  BY DEF Bound, Next, vars, Answer, check_wage, check_payment_timing,
         check_settlement, record_allegation, ServeOn
<1> QED BY <1>1, <1>2, PTL DEF Spec

LEMMA RecordOf == Bound => worker \in Record
BY RulesAssumption DEF Bound

-----------------------------------------------------------------------------
(* Scope. *)

\* A caller outside is answered by the scope gate, to a person and without a
\* finding.
LEMMA ScopeIsPerson ==
  ASSUME NEW w
  PROVE  ScopeCheck(w).findings = {} /\ ScopeCheck(w).tier > 0
BY DEF ScopeCheck, Result

\* Out of the regime, or with the month before a court, every check stops at
\* the gate.
LEMMA GateStops ==
  ASSUME NEW w, NEW p, ~InScope(w, p)
  PROVE  /\ WageCheck(w, p) = ScopeCheck(w)
         /\ TimingCheck(w, p) = ScopeCheck(w)
         /\ AllegationResult(w, p) = ScopeCheck(w)
BY DEF WageCheck, TimingCheck, AllegationResult

\* A caller whom the private-sector rules do not cover is given no finding
\* and no number by any check, and always a person (scope_check comes first).
THEOREM ScopeComesFirst == Spec => []NoNumberOutOfScope
<1>1. Bound => NoNumberOutOfScope
  <2> SUFFICES ASSUME Bound PROVE NoNumberOutOfScope
    OBVIOUS
  <2> DEFINE outside == \/ worker.zone # "mainland"
                        \/ worker.category = "domestic_worker"
  <2>1. \A p : outside \/ p \in worker.court => ~InScope(worker, p)
    BY DEF InScope, InRegime
  <2>2. outside => SettlementChecks(worker) = {ScopeCheck(worker)}
    BY <2>1 DEF SettlementChecks
  <2> QED BY <2>1, <2>2, ScopeIsPerson, GateStops DEF NoNumberOutOfScope
<1> QED BY <1>1, RecordsStay, PTL

-----------------------------------------------------------------------------
(* The line of a month and the wage. *)

\* A set of numbers that is not empty has a least one.
LEMMA LeastOf ==
  ASSUME NEW S, S \subseteq Nat, S # {}
  PROVE  \E i \in S : \A j \in S : i <= j
<1> DEFINE Less == {ss \in Nat \X Nat : ss[1] < ss[2]}
<1>1. IsWellFoundedOn(Less, Nat)
  BY NatLessThanWellFounded DEF OpToRel
<1>2. PICK i \in S : \A j \in S : <<j, i>> \notin Less
  BY <1>1, WFMin
<1>3. \A j \in S : <<j, i>> \in Less <=> j < i
  OBVIOUS
<1> HIDE DEF Less
<1>4. \A j \in S : ~(j < i)
  BY <1>2, <1>3
<1> QED BY <1>4

\* Where a record has a line of the month, there is a first one.
LEMMA FirstLine ==
  ASSUME NEW w \in Record, NEW p, HasLine(w, p)
  PROVE  \E i \in DOMAIN w.wps : /\ w.wps[i].period = p
                                 /\ \A j \in 1 .. i - 1 : w.wps[j].period # p
<1> DEFINE S == {i \in DOMAIN w.wps : w.wps[i].period = p}
<1>1. w.wps \in Seq(Line) /\ DOMAIN w.wps = 1 .. Len(w.wps) /\ Len(w.wps) \in Nat
  BY DEF Record
<1>2. S \subseteq Nat /\ S # {}
  BY <1>1 DEF HasLine
<1> HIDE DEF S
<1>3. PICK i \in S : \A j \in S : i <= j
  BY <1>2, LeastOf
<1>4. i \in DOMAIN w.wps /\ w.wps[i].period = p
  BY DEF S
<1>5. ASSUME NEW j \in 1 .. i - 1, w.wps[j].period = p PROVE FALSE
  <2>1. j \in S
    BY <1>1, <1>4, <1>5 DEF S
  <2> QED BY <2>1, <1>1, <1>3, <1>4
<1> QED BY <1>4, <1>5

\* And that is the one the check reads.
LEMMA FirstIsRead ==
  ASSUME NEW w \in Record, NEW p, NEW i \in DOMAIN w.wps,
         w.wps[i].period = p, \A j \in 1 .. i - 1 : w.wps[j].period # p
  PROVE  LineOf(w, p) = w.wps[i]
<1> DEFINE First(k) == /\ w.wps[k].period = p
                       /\ \A j \in 1 .. k - 1 : w.wps[j].period # p
           k == CHOOSE k \in DOMAIN w.wps : First(k)
<1>1. w.wps \in Seq(Line) /\ DOMAIN w.wps = 1 .. Len(w.wps) /\ Len(w.wps) \in Nat
  BY DEF Record
<1>2. k \in DOMAIN w.wps /\ First(k)
  OBVIOUS
<1>3. ~(k < i) /\ ~(i < k)
  BY <1>1, <1>2
<1>4. k = i
  BY <1>1, <1>2, <1>3
<1> QED BY <1>4 DEF LineOf

\* A whole number of fils more is as many fils more after rounding.
LEMMA MoneyMore ==
  \A x, n \in Nat : Money(x + 10 * n) = Money(x) + n
BY DEF Money

LEMMA MoneyFils == \A x \in Nat : Money(x) \in Nat
BY DEF Money

\* In scope, the shortfall is judged on the line of the month alone.
LEMMA WageJudged ==
  ASSUME NEW w, NEW p, InScope(w, p), HasLine(w, p)
  PROVE  IF Short(w, LineOf(w, p))
         THEN /\ WageCheck(w, p).status = "discrepancy"
              /\ WageCheck(w, p).findings =
                   {Finding("WAGE_SHORTFALL", "CONTRACT-VS-WPS",
                            Money(w.total) - Money(LineOf(w, p).paid))}
         ELSE /\ WageCheck(w, p).status = "clear"
              /\ WageCheck(w, p).findings = {}
BY DEF WageCheck, Result

\* Without a line, or outside, nothing is found.
LEMMA WageUnjudged ==
  ASSUME NEW w, NEW p, ~InScope(w, p) \/ ~HasLine(w, p)
  PROVE  WageCheck(w, p).findings = {}
BY GateStops, ScopeIsPerson DEF WageCheck, Result

\* Paid n fils more, the check reads the same line with n fils more in it.
LEMMA PaidMore ==
  ASSUME NEW w \in Record, NEW p, NEW n \in Nat, InScope(w, p), HasLine(w, p)
  PROVE  LET v == Paying(w, n)
         IN /\ InScope(v, p) /\ HasLine(v, p)
            /\ Money(v.total) = Money(w.total)
            /\ Money(LineOf(v, p).paid) = Money(LineOf(w, p).paid) + n
<1> DEFINE v == Paying(w, n)
<1>1. PICK i \in DOMAIN w.wps : /\ w.wps[i].period = p
                                /\ \A j \in 1 .. i - 1 : w.wps[j].period # p
  BY FirstLine
<1>2. w.wps \in Seq(Line) /\ DOMAIN w.wps = 1 .. Len(w.wps) /\ Len(w.wps) \in Nat
  BY DEF Record
<1>3. \A j \in DOMAIN w.wps : w.wps[j] \in Line
  BY <1>2
<1>4. v = [w EXCEPT !.wps = [j \in DOMAIN w.wps |->
                               [w.wps[j] EXCEPT !.paid = @ + 10 * n]]]
  BY DEF Paying
<1>5. /\ v.zone = w.zone /\ v.category = w.category /\ v.court = w.court
      /\ v.total = w.total
      /\ v.wps = [j \in DOMAIN w.wps |-> [w.wps[j] EXCEPT !.paid = @ + 10 * n]]
  BY <1>4 DEF Record
<1>6. /\ DOMAIN v.wps = DOMAIN w.wps
      /\ \A j \in DOMAIN w.wps : /\ v.wps[j].period = w.wps[j].period
                                 /\ v.wps[j].paid = w.wps[j].paid + 10 * n
                                 /\ v.wps[j] \in Line
  <2> SUFFICES ASSUME NEW j \in DOMAIN w.wps
               PROVE  /\ v.wps[j].period = w.wps[j].period
                      /\ v.wps[j].paid = w.wps[j].paid + 10 * n
                      /\ v.wps[j] \in Line
    BY <1>5
  <2> DEFINE l == w.wps[j]
  <2>1. l \in Line /\ v.wps[j] = [l EXCEPT !.paid = @ + 10 * n]
    BY <1>3, <1>5
  <2> HIDE DEF l, v
  <2>2. /\ v.wps[j].period = l.period /\ v.wps[j].paid = l.paid + 10 * n
        /\ v.wps[j] \in Line
    BY <2>1 DEF Line
  <2> QED BY <2>2 DEF l
<1>7. v \in Record
  <2>1. v.wps \in [1 .. Len(w.wps) -> Line]
    BY <1>2, <1>5, <1>6
  <2>2. v.wps \in Seq(Line)
    BY <2>1, <1>2
  <2> HIDE DEF v
  <2> QED BY <2>2, <1>4, <1>5 DEF Record
<1>8. LineOf(w, p) = w.wps[i]
  BY <1>1, FirstIsRead
<1>9. LineOf(v, p) = v.wps[i]
  <2>1. \A j \in 1 .. i - 1 : v.wps[j].period # p
    BY <1>1, <1>2, <1>6
  <2> HIDE DEF v
  <2> QED BY <2>1, <1>1, <1>6, <1>7, FirstIsRead
<1>10. Money(v.wps[i].paid) = Money(w.wps[i].paid) + n
  <2>1. w.wps[i].paid \in Nat
    BY <1>3 DEF Line
  <2>2. v.wps[i].paid = w.wps[i].paid + 10 * n
    BY <1>6
  <2>3. Money(w.wps[i].paid + 10 * n) = Money(w.wps[i].paid) + n
    BY <2>1, MoneyMore, Zenon
  <2> HIDE DEF v
  <2> QED BY <2>2, <2>3, Zenon
<1>11. InScope(v, p) /\ HasLine(v, p)
  BY <1>1, <1>5, <1>6 DEF InScope, InRegime, HasLine
<1> HIDE DEF v
<1>12. Money(v.total) = Money(w.total)
  BY <1>5
<1> QED BY <1>8, <1>9, <1>10, <1>11, <1>12 DEF v

\* A wage shortfall is closed by what it names and by no fils less.
LEMMA WageGapCloses ==
  ASSUME NEW w \in Record, NEW p, NEW f \in WageCheck(w, p).findings
  PROVE  /\ WageCheck(Paying(w, f.amount), p).status = "clear"
         /\ WageCheck(Paying(w, f.amount - 1), p).status = "discrepancy"
<1> DEFINE due == Money(w.total)
           paid == Money(LineOf(w, p).paid)
<1>1. InScope(w, p) /\ HasLine(w, p)
  BY WageUnjudged
<1>2. Short(w, LineOf(w, p)) /\ f.amount = due - paid
  BY <1>1, WageJudged DEF Finding
<1>3. due \in Nat /\ paid \in Nat
  <2>1. PICK i \in DOMAIN w.wps : LineOf(w, p) = w.wps[i]
    BY <1>1, FirstLine, FirstIsRead
  <2>2. w.wps \in Seq(Line)
    BY DEF Record
  <2>3. w.wps[i] \in Line
    BY <2>1, <2>2
  <2>4. w.total \in Nat /\ LineOf(w, p).paid \in Nat
    BY <2>1, <2>3 DEF Record, Line
  <2> QED BY <2>4, MoneyFils
<1>4. f.amount \in Nat /\ f.amount - 1 \in Nat
  BY <1>2, <1>3 DEF Short
<1>5. ASSUME NEW n \in Nat
      PROVE  WageCheck(Paying(w, n), p).status
               = IF paid + n < due THEN "discrepancy" ELSE "clear"
  <2> DEFINE v == Paying(w, n)
  <2>1. /\ InScope(v, p) /\ HasLine(v, p)
        /\ Money(v.total) = due /\ Money(LineOf(v, p).paid) = paid + n
    BY <1>1, PaidMore
  <2> HIDE DEF v
  <2>2. Short(v, LineOf(v, p)) <=> paid + n < due
    BY <2>1 DEF Short
  <2>3. WageCheck(v, p).status
          = IF Short(v, LineOf(v, p)) THEN "discrepancy" ELSE "clear"
    BY <2>1, WageJudged
  <2> QED BY <2>2, <2>3 DEF v
<1> HIDE DEF due, paid
<1>6. ~(paid + f.amount < due) /\ paid + (f.amount - 1) < due
  BY <1>2, <1>3
<1> QED BY <1>4, <1>5, <1>6

-----------------------------------------------------------------------------
(* The settlement. *)

\* In scope and with a date and an offer, the offer is compared with every
\* amount the gratuity may come to.
LEMMA SettlementJudged ==
  ASSUME NEW w, NEW r \in SettlementChecks(w), r.findings # {}
  PROVE  /\ InScope(w, None) /\ w.end # None /\ w.offer # None
         /\ \E calc \in Gratuity(w) : r = Compare(Money(w.offer), calc)
<1>1. InScope(w, None)
  BY ScopeIsPerson DEF SettlementChecks
<1>2. ~(w.end = None \/ w.offer = None)
  BY <1>1 DEF SettlementChecks, Result
<1> QED BY <1>1, <1>2 DEF SettlementChecks

\* The amounts are whole fils, one but for a half.
LEMMA RoundedFils ==
  ASSUME NEW wage \in Nat, NEW earned \in Nat
  PROVE  /\ Rounded(wage, earned) \subseteq Nat
         /\ \E x, y \in Nat : Rounded(wage, earned) = {x, y}
<1> DEFINE n == 2 * wage * earned
           x == (n + 10950) \div 21900
           y == IF n % 21900 = 10950 /\ ~(earned % 73 = 0 /\ wage % 3 = 0)
                THEN n \div 21900 ELSE x
<1>1. n \in Nat
  OBVIOUS
<1>2. Rounded(wage, earned) = {x, y}
  BY DEF Rounded
<1> HIDE DEF n
<1>3. x \in Nat /\ y \in Nat
  BY <1>1
<1> QED BY <1>2, <1>3

LEMMA GratuityFils ==
  ASSUME NEW w \in Record, w.end # None
  PROVE  /\ Money(w.basic) \in Nat
         /\ Service(w) \in Int
         /\ Service(w) >= 365 => GratuityDays(Service(w)) \in Nat
         /\ Gratuity(w) \subseteq Nat
         /\ IsFiniteSet(Gratuity(w))
<1>1. w.basic \in Nat /\ w.start \in Nat /\ w.end \in Nat
  BY DEF Record
<1>2. Money(w.basic) \in Nat
  BY <1>1 DEF Money
<1>3. Service(w) \in Int
  BY <1>1 DEF Service
<1>4. Service(w) >= 365 => GratuityDays(Service(w)) \in Nat
  BY <1>3 DEF GratuityDays, Least
<1>5. CASE Service(w) < 365
  <2>1. Gratuity(w) = {0}
    BY <1>5 DEF Gratuity
  <2> QED BY <1>2, <1>3, <1>4, <2>1, FS_Singleton
<1>6. CASE Service(w) >= 365
  <2> DEFINE R == Rounded(Money(w.basic), GratuityDays(Service(w)))
  <2>1. Gratuity(w) = {Least(a, 24 * Money(w.basic)) : a \in R}
    BY <1>3, <1>6 DEF Gratuity
  <2>2. PICK x, y \in Nat : R = {x, y}
    BY <1>2, <1>4, <1>6, RoundedFils
  <2>3. Gratuity(w) = {Least(x, 24 * Money(w.basic))}
                        \cup {Least(y, 24 * Money(w.basic))}
    BY <2>1, <2>2
  <2>4. IsFiniteSet(Gratuity(w))
    <3>1. \A a, b : IsFiniteSet({a} \cup {b})
      BY FS_Singleton, FS_Union, Zenon
    <3> QED BY <2>3, <3>1, Zenon
  <2>5. \A x1 \in Nat : Least(x1, 24 * Money(w.basic)) \in Nat
    BY <1>2 DEF Least
  <2> QED BY <1>2, <1>3, <1>4, <2>3, <2>4, <2>5
<1> QED BY <1>3, <1>5, <1>6

\* An offer n fils higher is compared with the same amounts.
LEMMA OfferedMore ==
  ASSUME NEW w \in Record, NEW n \in Nat,
         InScope(w, None), w.end # None, w.offer # None
  PROVE  SettlementChecks(Offering(w, n))
           = {Compare(Money(w.offer) + n, calc) : calc \in Gratuity(w)}
<1> DEFINE v == Offering(w, n)
<1>1. w.offer \in Nat
  BY DEF Record
<1>2. /\ v.zone = w.zone /\ v.category = w.category /\ v.court = w.court
      /\ v.basic = w.basic /\ v.start = w.start /\ v.end = w.end
      /\ v.offer = w.offer + 10 * n
  BY DEF Offering, Record
<1> HIDE DEF v
<1>3. v.offer # None
  BY <1>1, <1>2, RulesAssumption
<1>4. Money(v.offer) = Money(w.offer) + n
  <2>1. Money(w.offer + 10 * n) = Money(w.offer) + n
    BY <1>1, MoneyMore, Zenon
  <2> QED BY <1>2, <2>1, Zenon
<1>5. Gratuity(v) = Gratuity(w)
  BY <1>2 DEF Gratuity, Service
<1>6. InScope(v, None)
  BY <1>2 DEF InScope, InRegime
<1> QED BY <1>2, <1>3, <1>4, <1>5, <1>6 DEF SettlementChecks, v

\* A settlement shortfall is closed by what it names, and where the amount is
\* not a half, by no fils less.
LEMMA OfferGapCloses ==
  ASSUME NEW w \in Record, NEW r \in SettlementChecks(w), NEW f \in r.findings
  PROVE  /\ \E c \in SettlementChecks(Offering(w, f.amount)) : c.status = "clear"
         /\ Cardinality(Gratuity(w)) = 1 =>
              ~ \E c \in SettlementChecks(Offering(w, f.amount - 1)) :
                  c.status = "clear"
<1> DEFINE offered == Money(w.offer)
<1>1. /\ InScope(w, None) /\ w.end # None /\ w.offer # None
      /\ \E calc \in Gratuity(w) : r = Compare(offered, calc)
  BY SettlementJudged
<1>2. PICK calc \in Gratuity(w) : r = Compare(offered, calc)
  BY <1>1
<1>3. offered \in Nat /\ calc \in Nat /\ IsFiniteSet(Gratuity(w))
  BY <1>1, GratuityFils DEF Record, Money
<1>4. offered < calc /\ f.amount = calc - offered
  BY <1>2, <1>3 DEF Compare, Result, Finding
<1>5. f.amount \in Nat /\ f.amount - 1 \in Nat
  BY <1>3, <1>4
<1>6. /\ Compare(offered + f.amount, calc).status = "clear"
      /\ Compare(offered + (f.amount - 1), calc).status = "discrepancy"
  BY <1>3, <1>4 DEF Compare, Result
<1> HIDE DEF offered
<1>7. \E c \in SettlementChecks(Offering(w, f.amount)) : c.status = "clear"
  BY <1>1, <1>5, <1>6, OfferedMore DEF offered
<1>8. ASSUME Cardinality(Gratuity(w)) = 1,
             NEW c \in SettlementChecks(Offering(w, f.amount - 1))
      PROVE  c.status # "clear"
  <2>1. Gratuity(w) = {calc}
    BY <1>3, <1>8, FS_Singleton
  <2>2. c = Compare(offered + (f.amount - 1), calc)
    BY <1>1, <1>5, <2>1, OfferedMore DEF offered
  <2> QED BY <1>6, <2>2
<1> QED BY <1>7, <1>8

\* What a wage check or a settlement check says is missing is missing: made
\* up, the same check is clear, and a fils less leaves it open (wage_check,
\* settlement_check, money).
THEOREM GapIsWhatIsMissing == Spec => []GapCloses
<1>1. Bound => GapCloses
  BY RecordOf, WageGapCloses, OfferGapCloses DEF GapCloses
<1> QED BY <1>1, RecordsStay, PTL

-----------------------------------------------------------------------------
(* The gratuity of a longer service. *)

\* More earned by d days' wage, n grows by 2 * wage * d.
LEMMA EarnedMore ==
  ASSUME NEW wage \in Nat, NEW e \in Nat, NEW d \in {21, 30}
  PROVE  /\ 2 * wage * e \in Nat
         /\ 2 * wage * (e + d) = 2 * wage * e + 2 * wage * d
OBVIOUS

\* Whatever side a half falls on, an amount lies within half a fils.
LEMMA RoundedNear ==
  ASSUME NEW wage \in Nat, NEW e \in Nat, NEW a \in Rounded(wage, e)
  PROVE  /\ a \in Nat
         /\ 21900 * a <= 2 * wage * e + 10950
         /\ 2 * wage * e <= 21900 * a + 10950
<1> DEFINE n == 2 * wage * e
<1>1. n \in Nat
  BY EarnedMore
<1>2. \/ a = (n + 10950) \div 21900
      \/ n % 21900 = 10950 /\ a = n \div 21900
  BY DEF Rounded
<1> HIDE DEF n
<1>3. a \in Nat /\ 21900 * a <= n + 10950 /\ n <= 21900 * a + 10950
  BY <1>1, <1>2
<1> QED BY <1>3 DEF n

\* A day adds 21 or 30 days' wage to what is earned.
LEMMA DayEarns ==
  ASSUME NEW s \in Nat
  PROVE  \E d \in {21, 30} : GratuityDays(s + 1) = GratuityDays(s) + d
BY DEF GratuityDays, Least

\* So no rounded amount falls, and none grows by more than the day's share
\* and a fils on either side.
LEMMA RoundedGrows ==
  ASSUME NEW wage \in Nat, NEW e \in Nat, NEW d \in {21, 30},
         NEW a \in Rounded(wage, e), NEW b \in Rounded(wage, e + d)
  PROVE  a <= b /\ b - a <= wage \div 365 + 2
<1> DEFINE n == 2 * wage * e
           k == 2 * wage * d
<1>1. n \in Nat /\ k \in Nat /\ 42 * wage <= k /\ k <= 60 * wage
  BY EarnedMore
<1>2. 2 * wage * (e + d) = n + k
  BY EarnedMore
<1>3. e + d \in Nat
  OBVIOUS
<1>4. /\ a \in Nat /\ 21900 * a <= n + 10950 /\ n <= 21900 * a + 10950
      /\ b \in Nat /\ 21900 * b <= n + k + 10950 /\ n + k <= 21900 * b + 10950
  <2>1. a \in Nat /\ 21900 * a <= n + 10950 /\ n <= 21900 * a + 10950
    BY RoundedNear
  <2>2. /\ b \in Nat /\ 21900 * b <= 2 * wage * (e + d) + 10950
        /\ 2 * wage * (e + d) <= 21900 * b + 10950
    BY <1>3, RoundedNear
  <2> HIDE DEF n, k
  <2> QED BY <1>2, <2>1, <2>2
<1>5. CASE wage = 0
  <2>1. n = 0 /\ k = 0
    BY <1>5
  <2> HIDE DEF n, k
  <2>2. a = 0 /\ b = 0
    BY <1>4, <2>1
  <2> QED BY <1>5, <2>2
<1>6. CASE wage > 0
  <2> HIDE DEF n, k
  <2>1. 21900 * a < 21900 * b + 21900
    BY <1>1, <1>4, <1>6
  <2>2. 21900 * (b - a) <= 60 * wage + 21900
    BY <1>1, <1>4
  <2> QED BY <1>4, <2>1, <2>2
<1> QED BY <1>5, <1>6

\* A day more of service never costs the worker anything and adds at most a
\* day's share of thirty days' wage, also across the fifth year and the cap;
\* only the first year is a step (gratuity).
THEOREM ServiceNeverCosts == Spec => GratuityGrows
<1> DEFINE Grows == ServeOn =>
                      \A a \in Gratuity(worker), b \in Gratuity(worker') :
                        /\ a <= b /\ b <= 24 * Money(worker.basic)
                        /\ a > 0 => b - a <= Money(worker.basic) \div 365 + 2
<1>1. Bound => Grows
  <2> SUFFICES ASSUME Bound, ServeOn,
                      NEW a \in Gratuity(worker), NEW b \in Gratuity(worker')
               PROVE  /\ a <= b /\ b <= 24 * Money(worker.basic)
                      /\ a > 0 => b - a <= Money(worker.basic) \div 365 + 2
    OBVIOUS
  <2> DEFINE wage == Money(worker.basic)
             s == Service(worker)
  <2>1. worker \in Record /\ worker' \in Record
    BY RecordOf, RulesAssumption DEF ServeOn
  <2>2. /\ worker.end # None /\ worker'.end = worker.end + 1
        /\ worker'.basic = worker.basic /\ worker'.start = worker.start
    BY <2>1 DEF ServeOn, Record
  <2>3. worker.end \in Nat /\ worker.start \in Nat
    BY <2>1, <2>2 DEF Record
  <2>4. s \in Int /\ Service(worker') = s + 1
    BY <2>2, <2>3 DEF Service
  <2>5. wage \in Nat /\ a \in Nat /\ (s >= 365 => GratuityDays(s) \in Nat)
    BY <2>1, <2>2, GratuityFils
  <2>6. b \in Nat
    <3>1. worker'.end # None
      BY <2>2, <2>3, RulesAssumption
    <3>2. Gratuity(worker') \subseteq Nat
      BY <2>1, <3>1, GratuityFils
    <3> QED BY <3>2
  <2>7. Money(worker'.basic) = wage
    BY <2>2
  <2> HIDE DEF wage, s
  <2>8. Gratuity(worker) = IF s < 365 THEN {0}
                           ELSE {Least(x, 24 * wage) :
                                   x \in Rounded(wage, GratuityDays(s))}
    BY DEF Gratuity, wage, s
  <2>9. Gratuity(worker') = IF s + 1 < 365 THEN {0}
                            ELSE {Least(x, 24 * wage) :
                                    x \in Rounded(wage, GratuityDays(s + 1))}
    BY <2>4, <2>7 DEF Gratuity
  <2>10. b <= 24 * wage
    <3>1. CASE s + 1 < 365
      BY <2>5, <2>9, <3>1
    <3>2. CASE ~(s + 1 < 365)
      <4>1. PICK x \in Rounded(wage, GratuityDays(s + 1)) : b = Least(x, 24 * wage)
        BY <2>9, <3>2
      <4>2. GratuityDays(s + 1) \in Nat
        BY <2>4, <3>2 DEF GratuityDays, Least
      <4>3. x \in Nat
        BY <2>5, <4>2, RoundedNear
      <4> QED BY <2>5, <4>1, <4>3 DEF Least
    <3> QED BY <3>1, <3>2
  <2>11. CASE s < 365
    <3>1. a = 0
      BY <2>8, <2>11
    <3> QED BY <2>6, <2>10, <3>1 DEF wage
  <2>12. CASE ~(s < 365)
    <3>1. s \in Nat /\ ~(s + 1 < 365) /\ GratuityDays(s) \in Nat
      BY <2>4, <2>5, <2>12
    <3>2. PICK x \in Rounded(wage, GratuityDays(s)) : a = Least(x, 24 * wage)
      BY <2>8, <2>12
    <3>3. PICK y \in Rounded(wage, GratuityDays(s + 1)) : b = Least(y, 24 * wage)
      BY <2>9, <3>1
    <3>4. PICK d \in {21, 30} : GratuityDays(s + 1) = GratuityDays(s) + d
      BY <3>1, DayEarns
    <3>5. GratuityDays(s + 1) \in Nat
      BY <3>1, <3>4
    <3>6. x \in Nat /\ y \in Nat
      BY <2>5, <3>1, <3>5, RoundedNear
    <3>7. x <= y /\ y - x <= wage \div 365 + 2
      BY <2>5, <3>1, <3>4, RoundedGrows
    <3>8. a <= b /\ b - a <= wage \div 365 + 2
      BY <2>5, <3>2, <3>3, <3>6, <3>7 DEF Least
    <3> QED BY <2>10, <3>8 DEF wage
  <2> QED BY <2>4, <2>11, <2>12
<1>2. [][Grows]_worker <=> GratuityGrows
  BY DEF GratuityGrows
<1> HIDE DEF Grows
<1>3. Bound => [Grows]_worker
  BY <1>1
<1> QED BY <1>2, <1>3, RecordsStay, PTL

-----------------------------------------------------------------------------
(* The calendar. *)

\* The days before 1 March of year n.
YearStart(n) == 365 * n + n \div 4 - n \div 100 + n \div 400

\* A year starts 365 or 366 days after the one before.
LEMMA YearLength ==
  ASSUME NEW n \in Int
  PROVE  /\ YearStart(n) \in Int
         /\ YearStart(n) = YearStart(n - 1) + (IF LeapYear(n) THEN 366 ELSE 365)
BY DEF YearStart, LeapYear

\* A later year starts later.
LEMMA LaterYear ==
  ASSUME NEW m \in Int, NEW n \in Int, m < n
  PROVE  YearStart(m) + 364 <= YearStart(n)
<1>1. n \div 100 - m \div 100 <= n - m
  OBVIOUS
<1>2. m \div 4 <= n \div 4 /\ m \div 400 <= n \div 400
  OBVIOUS
<1> QED BY <1>1, <1>2 DEF YearStart

\* The days from 1 March to the first of a month, and the year it counts from.
MonthStart == <<306, 337, 0, 31, 61, 92, 122, 153, 184, 214, 245, 275>>

LEMMA FirstOf ==
  ASSUME NEW y \in Int, NEW m \in 1 .. 12
  PROVE  Date(y, m, 1) = 1 + MonthStart[m]
                           + YearStart(IF m <= 2 THEN y - 1 ELSE y)
<1>1. CASE m = 1  BY <1>1 DEF Date, MonthStart, YearStart
<1>2. CASE m = 2  BY <1>2 DEF Date, MonthStart, YearStart
<1>3. CASE m = 3  BY <1>3 DEF Date, MonthStart, YearStart
<1>4. CASE m = 4  BY <1>4 DEF Date, MonthStart, YearStart
<1>5. CASE m = 5  BY <1>5 DEF Date, MonthStart, YearStart
<1>6. CASE m = 6  BY <1>6 DEF Date, MonthStart, YearStart
<1>7. CASE m = 7  BY <1>7 DEF Date, MonthStart, YearStart
<1>8. CASE m = 8  BY <1>8 DEF Date, MonthStart, YearStart
<1>9. CASE m = 9  BY <1>9 DEF Date, MonthStart, YearStart
<1>10. CASE m = 10  BY <1>10 DEF Date, MonthStart, YearStart
<1>11. CASE m = 11  BY <1>11 DEF Date, MonthStart, YearStart
<1>12. CASE m = 12  BY <1>12 DEF Date, MonthStart, YearStart
<1> QED BY <1>1, <1>2, <1>3, <1>4, <1>5, <1>6, <1>7, <1>8, <1>9, <1>10, <1>11,
           <1>12

\* The due date, counted from the March before.
LEMMA DueOn ==
  ASSUME NEW p \in Nat \X (1 .. 12)
  PROVE  LET y == IF p[2] = 1 THEN p[1] - 1 ELSE p[1]
         IN /\ y \in Int
            /\ DueDate(p) = 1 + MonthStart[IF p[2] = 12 THEN 1 ELSE p[2] + 1]
                              + YearStart(y)
<1>1. CASE p[2] = 12
  <2>1. DueDate(p) = Date(p[1] + 1, 1, 1)
    BY <1>1 DEF DueDate
  <2>2. DueDate(p) = 1 + MonthStart[1] + YearStart(p[1] + 1 - 1)
    BY <2>1, FirstOf
  <2> QED BY <1>1, <2>2
<1>2. CASE p[2] # 12
  <2>1. DueDate(p) = Date(p[1], p[2] + 1, 1) /\ p[2] + 1 \in 1 .. 12
    BY <1>2 DEF DueDate
  <2>2. DueDate(p) = 1 + MonthStart[p[2] + 1]
                       + YearStart(IF p[2] + 1 <= 2 THEN p[1] - 1 ELSE p[1])
    BY <2>1, FirstOf
  <2> QED BY <1>2, <2>2
<1> QED BY <1>1, <1>2

\* A month is due the day after its last.
LEMMA DueAfterLastDay ==
  ASSUME NEW p \in Nat \X (1 .. 12)
  PROVE  /\ DueDate(p) \in Int
         /\ DueDate(p) = Date(p[1], p[2], 1) + MonthDays(p)
<1> DEFINE y == p[1]
           m == p[2]
<1>1. y \in Nat /\ m \in 1 .. 12
  OBVIOUS
<1>2. Date(y, m, 1) = 1 + MonthStart[m] + YearStart(IF m <= 2 THEN y - 1 ELSE y)
  BY <1>1, FirstOf
<1>3. DueDate(p) = 1 + MonthStart[IF m = 12 THEN 1 ELSE m + 1]
                     + YearStart(IF m = 1 THEN y - 1 ELSE y)
  BY DueOn
<1>4. /\ YearStart(y) \in Int /\ YearStart(y - 1) \in Int
      /\ YearStart(y) = YearStart(y - 1) + (IF LeapYear(y) THEN 366 ELSE 365)
  BY <1>1, YearLength
<1>5. MonthDays(p) = CASE m \in {4, 6, 9, 11} -> 30
                       [] m = 2 -> IF LeapYear(y) THEN 29 ELSE 28
                       [] OTHER -> 31
  BY DEF MonthDays
<1> HIDE DEF y, m
<1>6. \A k \in 1 .. 12 : MonthStart[k] \in Nat
  BY DEF MonthStart
<1>7. DueDate(p) \in Int
  BY <1>1, <1>3, <1>4, <1>6
<1>8. DueDate(p) = Date(y, m, 1) + MonthDays(p)
  <2>1. CASE m \in {1, 2}
    BY <1>2, <1>3, <1>4, <1>5, <2>1 DEF MonthStart
  <2>2. CASE m \in {3, 5, 7, 8, 10}
    BY <1>1, <1>2, <1>3, <1>4, <1>5, <2>2 DEF MonthStart
  <2>3. CASE m \in {4, 6, 9, 11}
    BY <1>1, <1>2, <1>3, <1>4, <1>5, <2>3 DEF MonthStart
  <2>4. CASE m = 12
    BY <1>1, <1>2, <1>3, <1>4, <1>5, <2>4 DEF MonthStart
  <2> QED BY <1>1, <2>1, <2>2, <2>3, <2>4
<1> QED BY <1>7, <1>8 DEF y, m

-----------------------------------------------------------------------------
(* Which rule a month is judged by. *)

\* The rules' first and last days.
LEMMA RuleDays ==
  /\ Date(2022, 1, 1) = 307 + YearStart(2021)
  /\ Date(2026, 5, 31) = 92 + YearStart(2026)
  /\ Date(2026, 6, 1) = 93 + YearStart(2026)
  /\ Date(9999, 12, 31) = 306 + YearStart(9999)
  /\ YearStart(2021) \in Nat /\ YearStart(2026) \in Nat /\ YearStart(9999) \in Nat
  /\ YearStart(2021) + 365 * 5 < YearStart(2026)
  /\ YearStart(2026) + 365 * 7973 < YearStart(9999)
BY DEF Date, YearStart

\* No day has two rules.
LEMMA RuleOfDay ==
  ASSUME NEW day \in Int
  PROVE  /\ day < 307 + YearStart(2021) => Covering(day) = {}
         /\ 307 + YearStart(2021) <= day /\ day <= 92 + YearStart(2026)
              => Covering(day) = {1}
         /\ 93 + YearStart(2026) <= day /\ day <= 306 + YearStart(9999)
              => Covering(day) = {2}
         /\ 306 + YearStart(9999) < day => Covering(day) = {}
<1>1. /\ DOMAIN payment_timing = {1, 2}
      /\ payment_timing[1].from = 307 + YearStart(2021)
      /\ payment_timing[1].to = 92 + YearStart(2026)
      /\ payment_timing[2].from = 93 + YearStart(2026)
      /\ payment_timing[2].to = 306 + YearStart(9999)
  BY RuleDays DEF payment_timing, TimingRule
<1>2. Covering(day) = {i \in {1, 2} : /\ payment_timing[i].from <= day
                                      /\ day <= payment_timing[i].to}
  BY <1>1 DEF Covering
<1> QED BY <1>1, <1>2, RuleDays

\* Where there is one rule it is the one selected.
LEMMA RuleSelected ==
  ASSUME NEW day, NEW i \in Nat, Covering(day) = {i}
  PROVE  SelectTimingRule(day) = payment_timing[i]
<1>1. (CHOOSE k \in {i} : \A j \in {i} : k <= j) = i
  OBVIOUS
<1> QED BY <1>1 DEF SelectTimingRule

\* Due before there was a rule, and due before the change.
Unruled(p) == p[1] < 2021 \/ (p[1] = 2021 /\ p[2] < 12)
Before(p)  == p[1] < 2026 \/ (p[1] = 2026 /\ p[2] < 5)

\* The months follow each other as their due dates do: one rule up to April
\* 2026, the other from May, none before 2022 and after the calendar's end.
LEMMA RuleOfMonth ==
  ASSUME NEW p \in Nat \X (1 .. 12), p[1] <= 9999
  PROVE  Covering(DueDate(p)) = IF Unruled(p) \/ p = <<9999, 12>> THEN {}
                                ELSE IF Before(p) THEN {1} ELSE {2}
<1>1. PICK n \in Nat, k \in 1 .. 12 : p = <<n, k>> /\ n <= 9999
  OBVIOUS
<1> DEFINE m == IF k = 12 THEN 1 ELSE k + 1
           y == IF k = 1 THEN n - 1 ELSE n
           due == 1 + MonthStart[m] + YearStart(y)
<1>2. y \in Int /\ DueDate(p) = due
  <2>1. p[1] = n /\ p[2] = k
    BY <1>1
  <2> QED BY <2>1, DueOn
<1>3. YearStart(y) \in Int
  BY <1>2, YearLength
<1>4. MonthStart[m] \in 0 .. 337
  BY DEF MonthStart
<1>5. ASSUME NEW x \in {2021, 2026, 9999}
      PROVE  /\ y < x => YearStart(y) + 364 <= YearStart(x)
             /\ y = x => YearStart(y) = YearStart(x)
             /\ x < y => YearStart(x) + 364 <= YearStart(y)
  <2>1. x \in Int /\ YearStart(x) \in Int
    BY YearLength
  <2> HIDE DEF y
  <2>2. y < x => YearStart(y) + 364 <= YearStart(x)
    BY <1>2, <2>1, LaterYear
  <2>3. x < y => YearStart(x) + 364 <= YearStart(y)
    BY <1>2, <2>1, LaterYear
  <2> QED BY <2>2, <2>3
<1>6. /\ k = 1 => MonthStart[m] = 337
      /\ k # 1 => /\ k < 12 => MonthStart[m] <= 275
                  /\ k = 12 => MonthStart[m] = 306
                  /\ k < 5 => MonthStart[m] <= 61
                  /\ k >= 5 => MonthStart[m] >= 92
  BY DEF MonthStart
<1>7. /\ Unruled(p) <=> due < 307 + YearStart(2021)
      /\ Before(p) <=> due <= 92 + YearStart(2026)
      /\ Before(p) <=> due < 93 + YearStart(2026)
      /\ p = <<9999, 12>> <=> 306 + YearStart(9999) < due
  <2> DEFINE s == MonthStart[m]
             Y == YearStart(y)
             A == YearStart(2021)
             B == YearStart(2026)
             C == YearStart(9999)
  <2>1. /\ A \in Int /\ B \in Int /\ C \in Int
        /\ A + 1825 < B /\ B + 365 < C
    BY RuleDays
  <2>2. /\ y < 2021 => Y + 364 <= A
        /\ y = 2021 => Y = A
        /\ 2021 < y => A + 364 <= Y
    BY <1>5
  <2>3. /\ y < 2026 => Y + 364 <= B
        /\ y = 2026 => Y = B
        /\ 2026 < y => B + 364 <= Y
    BY <1>5
  <2>4. /\ y < 9999 => Y + 364 <= C
        /\ y = 9999 => Y = C
        /\ 9999 < y => C + 364 <= Y
    BY <1>5
  <2>5. y = (IF k = 1 THEN n - 1 ELSE n)
    OBVIOUS
  <2> HIDE DEF s, Y, A, B, C, y, m
  <2>6. /\ n < 2021 \/ (n = 2021 /\ k < 12) <=> 1 + s + Y < 307 + A
        /\ n < 2026 \/ (n = 2026 /\ k < 5) <=> 1 + s + Y <= 92 + B
        /\ n < 2026 \/ (n = 2026 /\ k < 5) <=> 1 + s + Y < 93 + B
        /\ n = 9999 /\ k = 12 <=> 306 + C < 1 + s + Y
    <3>1. s \in 0 .. 337 /\ Y \in Int
      BY <1>3, <1>4 DEF s, Y
    <3>2. /\ k = 1 => s = 337
          /\ k # 1 => /\ k < 12 => s <= 275
                      /\ k = 12 => s = 306
                      /\ k < 5 => s <= 61
                      /\ k >= 5 => s >= 92
      BY <1>6 DEF s
    <3> QED BY <1>1, <1>2, <2>1, <2>2, <2>3, <2>4, <2>5, <3>1, <3>2
  <2> QED BY <1>1, <2>6 DEF Unruled, Before, s, Y, A, B, C
<1>8. due \in Int
  <2> HIDE DEF m, y
  <2> QED BY <1>3, <1>4
<1>9. DueDate(p) = due
  BY <1>2
<1> HIDE DEF due
<1>10. /\ Unruled(p) => Covering(due) = {}
       /\ p = <<9999, 12>> => Covering(due) = {}
       /\ ~Unruled(p) /\ Before(p) => Covering(due) = {1}
       /\ ~Before(p) /\ p # <<9999, 12>> => Covering(due) = {2}
  <2>1. YearStart(2021) \in Nat /\ YearStart(2026) \in Nat /\ YearStart(9999) \in Nat
    BY RuleDays
  <2> QED BY <1>7, <1>8, <2>1, RuleOfDay
<1>11. Unruled(p) => Before(p)
  BY <1>1 DEF Unruled, Before
<1> QED BY <1>9, <1>10, <1>11

\* The transition month is never judged, and every other month is judged by
\* the resolution in force when it was due: by its day of the next month and
\* by the days since.  Only where none was in force is there no answer
\* (timing_check, select_timing_rule, docs/adr/D5).
THEOREM JudgedByItsOwnRule == Spec => []TimingByLaw
<1>1. Bound => TimingByLaw
  <2> SUFFICES ASSUME Bound, NEW p \in Periods
      PROVE LET r      == TimingCheck(worker, p)
                before == p[1] < 2026 \/ (p[1] = 2026 /\ p[2] < 5)
                first  == Date(p[1], p[2], 1) + MonthDays(p)
                late   == LineOf(worker, p).paidOn - first
                            - (IF before THEN 14 ELSE 0)
            IN /\ r = Raised => \/ p[1] < 2021 \/ (p[1] = 2021 /\ p[2] < 12)
                                \/ p = <<9999, 12>>
               /\ r.status \in {"clear", "discrepancy"} =>
                    /\ p # <<2026, 5>>
                    /\ r.findings = IF late <= 0 THEN {}
                         ELSE {Finding("PAID_LATE",
                                 IF before THEN "WPS-598-2022"
                                           ELSE "WPS-340-2026", late)}
    BY DEF TimingByLaw
  <2> DEFINE r == TimingCheck(worker, p)
             day == LineOf(worker, p).paidOn
             due == DueDate(p)
             late == day - due - (IF Before(p) THEN 14 ELSE 0)
             Judged == /\ InScope(worker, p) /\ p # <<2026, 5>>
                       /\ HasLine(worker, p) /\ day # None
  <2>1. worker \in Record /\ p \in Nat \X (1 .. 12) /\ p[1] <= 9999
    BY RecordOf, RulesAssumption
  <2>2. due = Date(p[1], p[2], 1) + MonthDays(p) /\ due \in Int
    BY <2>1, DueAfterLastDay
  <2>3. CASE ~Judged
    <3>1. r # Raised /\ r.status \notin {"clear", "discrepancy"}
      BY <2>3 DEF TimingCheck, ScopeCheck, Result, Raised, TransitionPeriods
    <3> QED BY <3>1
  <2>4. CASE Judged
    <3>1. r = JudgeTiming(worker, p)
      BY <2>4 DEF TimingCheck, TransitionPeriods
    <3>2. CASE Unruled(p) \/ p = <<9999, 12>>
      <4>1. r = Raised
        BY <2>1, <3>1, <3>2, RuleOfMonth DEF JudgeTiming
      <4> QED BY <3>2, <4>1 DEF Unruled, Raised, Result
    <3>3. CASE ~(Unruled(p) \/ p = <<9999, 12>>)
      <4> DEFINE rule == SelectTimingRule(due)
      <4>1. day \in Nat
        <5>1. PICK i \in DOMAIN worker.wps : LineOf(worker, p) = worker.wps[i]
          <6>1. worker \in Record /\ HasLine(worker, p)
            BY <2>1, <2>4
          <6> QED BY <6>1, FirstLine, FirstIsRead
        <5>2. worker.wps \in Seq(Line)
          BY <2>1 DEF Record
        <5>3. worker.wps[i] \in Line
          BY <5>1, <5>2
        <5> QED BY <5>1, <5>3, <2>4 DEF Line
      <4>2. Covering(due) = IF Before(p) THEN {1} ELSE {2}
        BY <2>1, <3>3, RuleOfMonth
      <4>3. /\ Before(p) => rule = payment_timing[1]
            /\ ~Before(p) => rule = payment_timing[2]
        BY <4>2, RuleSelected
      <4>4. /\ rule.rule_id = IF Before(p) THEN "WPS-598-2022" ELSE "WPS-340-2026"
            /\ rule.late_after_day = IF Before(p) THEN 15 ELSE 1
        BY <4>3 DEF payment_timing, TimingRule
      <4>5. r = Judge(rule, due, day)
        BY <3>1, <4>2 DEF JudgeTiming
      <4> HIDE DEF rule, day, due, r
      <4>6. day - (due + rule.late_after_day - 1) = late
        BY <2>2, <4>1, <4>4
      <4>7. /\ r # Raised
            /\ r.findings = IF late <= 0 THEN {}
                            ELSE {Finding("PAID_LATE", rule.rule_id, late)}
        BY <4>5, <4>6 DEF Judge, Raised, Result
      <4> QED BY <2>2, <2>4, <4>4, <4>7 DEF Before, r, day, due
    <3> QED BY <3>2, <3>3
  <2> QED BY <2>3, <2>4
<1> QED BY <1>1, RecordsStay, PTL
=============================================================================

------------------------------- MODULE MCRules -------------------------------
(***************************************************************************)
(* Records for the checks of module Rules: a plain contract, and one thing *)
(* that differs around each of its boundaries.                             *)
(***************************************************************************)
EXTENDS Rules

July == <<2026, 7>>

\* Before there is a rule, around a new year and a leap day, around the
\* change of resolutions, in a century without a leap day, and at the end.
MCPeriods == {<<2021, 11>>, <<2021, 12>>, <<2024, 1>>, <<2024, 2>>,
              <<2025, 12>>, <<2026, 4>>, <<2026, 5>>, <<2026, 6>>, July,
              <<2100, 2>>, <<9999, 11>>, <<9999, 12>>}

Plain == [zone |-> "mainland", category |-> "private_sector",
          basic |-> 30000, total |-> 50000, start |-> Date(2000, 2, 28),
          end |-> None, offer |-> None, court |-> {}, wps |-> <<>>]

LineFor(p, paid, day, deduction) ==
  [period |-> p, paid |-> paid, paidOn |-> day, deduction |-> deduction]

\* Amounts around the wage, half fils included.
WageRecords ==
  {[Plain EXCEPT !.wps = <<LineFor(July, paid, None, deduction)>>] :
     paid \in {0} \cup 49990 .. 50005, deduction \in {0, 700}}

\* Days around the first and the fifteenth of the month after.
TimingRecords ==
  {[Plain EXCEPT !.wps = <<LineFor(p, 50000, DueDate(p) + n, 0)>>] :
     p \in MCPeriods, n \in {-1, 0, 1, 13, 14, 15, 31}}

\* Service around one and five years and around the cap, a wage with halves.
SettlementRecords ==
  {[Plain EXCEPT !.basic = b, !.end = Plain.start + d - 1, !.offer = o] :
     b \in {10154, 30000}, o \in {None, 0, 7114, 21000},
     d \in 363 .. 368 \cup 1823 .. 1828 \cup 9306 .. 9311}

OtherRegimes ==
  {[r EXCEPT !.zone = z, !.category = c, !.court = k] :
     r \in {[Plain EXCEPT !.wps = <<LineFor(July, 1000, DueDate(July) + 9, 0)>>,
                          !.end = Plain.start + 2000, !.offer = 5]},
     z \in {"mainland", "DIFC", "ADGM"},
     c \in {"private_sector", "domestic_worker"}, k \in {{}, {July}, {<<2026, 5>>}}}

MCRecords == WageRecords \cup TimingRecords \cup SettlementRecords \cup OtherRegimes
=============================================================================

--------------------------- MODULE MCControlPlane ---------------------------
(* Small instances of ControlPlane: two workers with a case each, and the   *)
(* calls that matter to each question.                                      *)
EXTENDS CasePage, TLC

CONSTANTS w1, w2, k1, k2, c1, c2, r1, refer, uphold

MCCaseOf == w1 :> k1 @@ w2 :> k2

NobodyBound == [c \in Conv |-> None]
FirstBound  == [c \in Conv |-> IF c = c1 THEN w1 ELSE None]

AnyOutcome  == CheckOutcome \cup {None}
FewOutcomes == {[tier |-> 0, findings |-> {"record"}],
                [tier |-> 1, findings |-> {}], None}
OneOutcome  == {[tier |-> 1, findings |-> {"record"}]}

Symmetry == Permutations(Req)

\* Where r1 is the one review that is decided and read.
DeskSymmetry == Permutations(Req \ {r1})

AskVerify(c, k, w, pin) == [tool |-> "verify_session", conv |-> c, case |-> k,
                         worker |-> w, pin |-> pin]
AskCheck(tool, c, k)    == [tool |-> tool, conv |-> c, case |-> k,
                         period |-> TRUE]
AskDraft(c, k, ok)      == [tool |-> "draft_complaint", conv |-> c, case |-> k,
                         confirmed |-> ok]
AskReview(c, k, t)       == [tool |-> "send_to_review", conv |-> c, case |-> k,
                         tier |-> t]
AskTransfer(c, cb, ok)  == [tool |-> "transfer_to_human", conv |-> c,
                         callback |-> cb, consent |-> ok]
Deliver(c, turns)    == [tool |-> "post_call", conv |-> c, turns |-> turns]
Judge(d, rs)         == [tool : {"decide"}, review : rs, decision : {d}]
Open(rs)             == [tool : {"review_detail"}, review : rs]

\* One phone, two sets of credentials, a wrong code and a foreign case.
VerifyCalls(c) == {AskVerify(c, k1, w1, TRUE), AskVerify(c, k2, w2, TRUE),
                   AskVerify(c, k1, w1, FALSE), AskVerify(c, k2, w1, TRUE)}
FirstPhone == VerifyCalls(c1)

\* Casework on c1, which is verified, while somebody verifies on c2, rightly
\* or wrongly, and asks about the same case and about another.
ToolCalls == VerifyCalls(c2)
             \cup {AskCheck("check", c1, k1),
                   AskCheck("record_allegation", c1, k1),
                   AskDraft(c1, k1, TRUE), AskReview(c1, k1, 0),
                   AskCheck("check", c2, k1), AskDraft(c2, k2, TRUE),
                   AskReview(c2, k1, 1)}
             \cup Open(Req)

\* The specialist's desk: a call is checked, drafted, sent to review and
\* delivered; a review is decided and read.
DeskCalls == {AskCheck("check", c1, k1), AskDraft(c1, k1, TRUE),
              AskReview(c1, k1, 1), Deliver(c1, TRUE), Deliver(c1, FALSE)}
             \cup Judge(refer, {r1}) \cup Open({r1})

\* One call of every kind and every refusal, for a caller verified on c1.
EveryTool == {AskVerify(c1, k1, w1, TRUE), AskVerify(c1, k2, w1, TRUE),
              AskVerify(c2, k1, w1, TRUE), AskVerify(c2, k2, w1, TRUE),
              AskCheck("check", c1, k1), AskCheck("check", c1, k2),
              [AskCheck("check", c1, k1) EXCEPT !.period = FALSE],
              AskCheck("record_allegation", c1, k1),
              AskDraft(c1, k1, TRUE), AskDraft(c1, k1, FALSE),
              AskReview(c1, k1, 0), AskReview(c1, k1, NoTier),
              AskTransfer(c1, TRUE, TRUE), AskTransfer(c1, TRUE, FALSE),
              AskTransfer(c1, FALSE, FALSE), Deliver(c1, TRUE)}
             \cup Judge(refer, Req) \cup Judge(None, Req) \cup Open(Req)
=============================================================================

---------------------------- MODULE MCConversation ----------------------------
(* Conversation on small instances.                                        *)
EXTENDS Conversation, TLC

CONSTANTS p1, p2, p3, k1, k2, m1, m2, m3

ThreePosts == {p1, p2, p3}
NoClicks   == {}
TwoClicks  == {k1, k2}

(* One e-mail delivered twice and, with three posts, an SMS.               *)
Repeated == [p \in Posts |-> IF p = p3 THEN m2 ELSE m1]

(* A plain and an urgent e-mail and a text.                                *)
Distinct == [p \in Posts |-> CASE p = p1 -> m1 [] p = p2 -> m2 [] p = p3 -> m3]

NoMail    == {}
JustM2    == {m2}
JustM3    == {m3}

AllFeatures == {"reply", "status", "setting", "fail"}
Failures    == {"fail"}
=============================================================================

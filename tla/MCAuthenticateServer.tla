------------------------ MODULE MCAuthenticateServer ------------------------
(* Two servers behind one address, certified by two CIs; two cards, which may
   come to trust either CI or both, under one identifier. *)
EXTENDS AuthenticateServer

CONSTANTS s1, s2, c1, c2, ci, other

MCServer == {s1, s2}
MCCard == {c1, c2}
MCCi == {ci, other}
MCId == {<<1, 1>>}
MCCertificate == {[subject |-> s1, issuer |-> ci], [subject |-> s2, issuer |-> other]}
MCAddress == [s \in MCServer |-> "smdp.example.com"]
MCTid == {1, 2}
MCChallenge == {1}
=============================================================================

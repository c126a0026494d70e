------------------------------- MODULE MCSgp26 -------------------------------
(* Every holder has a key on each curve.  A point is a head and two octets that
   determine each other, so that, as on a curve, most octets are no point. *)
EXTENDS Sgp26

Holder == {"CI", "EUM", "EUICC", "DPauth", "DP2auth", "DPpb", "DPpbA", "DSauth", "DSauthA",
           "EIM", "SubCA"}

MCScalar   == 65 .. 90
MCMultiple == [at \in CurveKind \X MCScalar |->
                 LET x == IF at[1] = "P256" THEN at[2] ELSE at[2] + 128
                 IN  <<4, x, 255 - x>>]
MCKey      == {[curve |-> c, point |-> MCMultiple[c, s]] : c \in CurveKind, s \in MCScalar}
MCScalarOf == [at \in Holder \X CurveKind |->
                 64 + (CASE at[1] = "CI" -> 1 [] at[1] = "EUM" -> 2 [] at[1] = "EUICC" -> 3
                         [] at[1] = "DPauth" -> 4 [] at[1] = "DP2auth" -> 5
                         [] at[1] = "DPpb" -> 6 [] at[1] = "DPpbA" -> 7
                         [] at[1] = "DSauth" -> 8 [] at[1] = "DSauthA" -> 9
                         [] at[1] = "EIM" -> 10 [] at[1] = "SubCA" -> 11)
                    + (IF at[2] = "P256" THEN 0 ELSE 11)]

\* All that is in fixtures/sgp26/variant-o.
MCPublished ==
  (Name \X CurveKind) \ ({"CERT_S_SM_DP2auth"} \X CurveKind
                          \cup {<<"PK_S_SM_DPauth", "BrainpoolP256r1">>})
MCFragile == {"PK_EUICC", "SK_EUICC", "PK_S_SM_DPauth", "SK_S_SM_DPpb"}
\* A 21 in the right place makes one scalar of another.
MCChars   == {0, 1, 4, 16, 21, 63, PAD, BAD, NOT_UTF8}
=============================================================================

---------------------------- MODULE MCBspSession ----------------------------
(* Small instances of BspSession.  Sizes, key lengths and limits are the
   program's own. *)
EXTENDS BspSession, TLC

CONSTANTS tiny, long, huge

\* One cipher block; three; and one that is exactly at the limit in the clear
\* (65527 + 8 = 65535) and over it once it is padded.
MCPayload == {tiny, long, huge}
MCFittingPayload == {tiny, long}
MCSize == (tiny :> 5) @@ (long :> 40) @@ (huge :> 65527)

MCSecret == {"y", "z"}

MCTags == {TAG_MAC_AND_ENCRYPT, TAG_MAC_ONLY}

KeysFor(secret, keyType, keyLength, hostId, eid) ==
  [secret |-> secret, keyType |-> keyType, keyLength |-> keyLength,
   hostId |-> hostId, eid |-> eid]

\* The two sides agree.
MCAgreed == {KeysFor("z", SessionKeys, KEY_LEN, <<1>>, <<2, 3>>)}

\* They may disagree on the secret, on the key type, or on where the host's
\* identifier ends and the EID begins; or derive keys of a length AES-128 has
\* no use for.
MCDisputed ==
  MCAgreed \cup
  {KeysFor("y", SessionKeys, KEY_LEN, <<1>>, <<2, 3>>),
   KeysFor("z", ProfileKeys, KEY_LEN, <<1>>, <<2, 3>>),
   KeysFor("z", SessionKeys, KEY_LEN, <<1, 2>>, <<3>>),
   KeysFor("z", SessionKeys, 8, <<1>>, <<2, 3>>),
   KeysFor("z", SessionKeys, 0, <<1>>, <<2, 3>>)}
=============================================================================

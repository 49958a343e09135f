---------------------------- MODULE DurableStore ----------------------------
(***************************************************************************)
(* What a result cache promises across crashes: a dictionary that changes  *)
(* by one whole entry at a time, or is emptied on request. CacheManager    *)
(* implements it with a memory image, a temporary file and a rename.       *)
(***************************************************************************)
VARIABLE entries

Empty == <<>>

Put == \E k \in DOMAIN entries' :
          /\ DOMAIN entries' = DOMAIN entries \cup {k}
          /\ \A x \in DOMAIN entries \ {k} : entries'[x] = entries[x]

Clear == entries' = Empty

Spec == entries = Empty /\ [][Put \/ Clear]_entries
=============================================================================

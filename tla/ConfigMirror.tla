------------------------------ MODULE ConfigMirror ------------------------------
(***************************************************************************)
(* What a synchroniser of internal/configsync promises about one key: the  *)
(* copy in the cache is one of the contents that were read from the        *)
(* database and not yet dropped, and it converges to the content of the    *)
(* database when that stops changing.  A read yields a part of what the    *)
(* database holds at that time: all of it, unless the synchroniser takes a *)
(* read that broke off for a complete one.                                 *)
(***************************************************************************)
CONSTANTS Contents,    \* what the database may hold
          Publishable, \* the contents a synchroniser copies
          Parts(_),    \* what a read of a content may yield
          Nothing      \* the key is absent

VARIABLES source, copy,
          reads        \* contents read and still to be copied or dropped

mirrorVars == <<source, copy, reads>>

Init == source \in Contents /\ copy = Nothing /\ reads = {}

Change == source' \in Contents /\ UNCHANGED <<copy, reads>>

(* A synchroniser reads; what others hold is kept. *)
Read == /\ \E c \in Parts(source) \cap Publishable : reads' = reads \cup {c}
        /\ UNCHANGED <<source, copy>>

(* One of the contents read is copied: the newest, or an older one. *)
Publish == /\ copy' \in reads
           /\ reads' \in SUBSET reads
           /\ UNCHANGED source

Drop == reads' \in SUBSET reads /\ UNCHANGED <<source, copy>>

(* The cache loses the key. *)
Lose == copy' = Nothing /\ UNCHANGED <<source, reads>>

Next == Change \/ Read \/ Publish \/ Drop \/ Lose

Spec == Init /\ [][Next]_mirrorVars

(* The copy ends up equal to a content the database keeps for ever. *)
Converges ==
  \A c \in Publishable : <>[](source = c) => <>[](copy = c)
=============================================================================

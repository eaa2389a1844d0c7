-------------------------------- MODULE MCTrust --------------------------------
(* Two repositories: what their committed files may say.                     *)
EXTENDS TrustRegistry

Sets(k, v) == [Blank EXCEPT ![k] = v]

\* No file; rules, and a remote, which is ignored; the same rules and a store.
Rules == Sets("prompt", "x")
Contents == {Missing} \cup {Whole(s) : s \in {[Rules EXCEPT !.remote = "x"], [Rules EXCEPT !.store = "x"]}}

\* A legacy session file that names a store, and one without settings.
Sessions == [r \in Repo |-> IF r = 1 THEN Sets("store", "none") ELSE Blank]

\* Which of the processes does what makes no difference.
Same == Permutations(Proc)
================================================================================

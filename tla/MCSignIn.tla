------------------------------ MODULE MCSignIn ------------------------------
(* Two workers; one e-mail from three addresses with room for two, so that *)
(* both stores evict; a lock after two failures; a clock that passes the   *)
(* end of every window; and two long passwords that bcrypt cannot tell     *)
(* apart.  An account with a scrypt hash need not be there at the start: a *)
(* sign-up makes it, or a rehash.                                          *)
EXTENDS SignIn, TLC

MCSchemes == {"scrypt", "bcrypt"}

MCKeyOf == [s \in MCSchemes |-> [p \in Passwords |->
               IF s = "bcrypt" THEN CHOOSE q \in Passwords : TRUE ELSE p]]

MCInit == Init /\ \A e \in Emails : auth[e] = Nothing \/ NeedsRehash(auth[e])
MCSpec == MCInit /\ [][Next]_vars

\* Three requests about an account from bcrypt: two that race to rehash it, and
\* one to find what they left.  The guesses that lock take four, with scrypt.
MCRehashRequests == 3
FewAboutBcrypt ==
    \A e \in Emails : original[e] # Nothing /\ NeedsRehash(original[e])
                         => requests <= MCRehashRequests

Symmetry == Permutations(Workers) \cup Permutations(Ips) \cup Permutations(Passwords)
=============================================================================

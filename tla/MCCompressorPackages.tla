------------------------ MODULE MCCompressorPackages ------------------------
(***************************************************************************)
(* Small instances of CompressorPackages: two uploads of one user and one  *)
(* of another under the same name, and deletions by an administrator and   *)
(* by a professor.  Between her uploads alice moves to the professor's     *)
(* group.                                                                  *)
(***************************************************************************)
EXTENDS CompressorPackages, TLC

CONSTANTS u1, u2, u3, d1, d2, alice, bob, root, g1, g2, codec

MCNameOf == [u \in {u1, u2, u3} |-> codec]
MCOwnerOf == (u1 :> alice) @@ (u2 :> alice) @@ (u3 :> bob)
MCGroupOf == (u1 :> g1) @@ (u2 :> g2) @@ (u3 :> g2)
MCActorOf == (d1 :> root) @@ (d2 :> bob)
MCRoleOf == (alice :> "phd") @@ (bob :> "professor") @@ (root :> "admin")
MCHomeOf == (alice :> g2) @@ (bob :> g2) @@ (root :> NoGroup)
=============================================================================

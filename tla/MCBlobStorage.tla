---------------------------- MODULE MCBlobStorage ----------------------------
(***************************************************************************)
(* Instances of BlobStorage.  The package of a1 holds an empty file, whose *)
(* key is the one every rejected empty upload shares.                      *)
(***************************************************************************)
EXTENDS BlobStorage, TLC

CONSTANTS a, b, k0, k1, u1, u2, u3, m1, w1

MCOwnerOf == u1 :> a @@ u2 :> a @@ u3 :> b
MCRawKey == u1 :> k1 @@ u2 :> k1 @@ u3 :> k0
MCFileKey == u1 :> k0 @@ u2 :> k1 @@ u3 :> k0
MCMemoKey == m1 :> k0
=============================================================================

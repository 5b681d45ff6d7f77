--------------------------- MODULE MCUploadLimiter ---------------------------
(***************************************************************************)
(* Small instances of UploadLimiter.                                       *)
(***************************************************************************)
EXTENDS UploadLimiter, TLC

CONSTANTS u1, u2, u3, u4, a, b

\* One uploader presigns twice, another and an exempt one share the owner's
\* quota.
Shared == u1 :> a @@ u2 :> a @@ u3 :> b @@ u4 :> b
Sizes == u1 :> 1 @@ u2 :> 2 @@ u3 :> 1 @@ u4 :> 1
Uploader == [u \in Uploads |-> Shared[u]]
SizeOf == [u \in Uploads |-> Sizes[u]]
==============================================================================

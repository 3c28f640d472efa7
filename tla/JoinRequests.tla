---------------------------- MODULE JoinRequests ----------------------------
(***************************************************************************)
(* The rows of author_group_join_requests as GroupJoin and                 *)
(* JoinRequestOutbox name them: both are about the same requests, the one  *)
(* about who is admitted, the other about who is told.                     *)
(***************************************************************************)
CONSTANTS Requests, \* ids of join requests; bounds the submissions
          None
=============================================================================

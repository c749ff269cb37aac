----------------------------- MODULE MCFeedCache -----------------------------
(***************************************************************************)
(* Small instances of FeedCache, its seconds cut to ticks of about 15 s.   *)
(***************************************************************************)
EXTENDS FeedCache
=============================================================================

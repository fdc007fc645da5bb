----------------------------- MODULE MCBackfill ----------------------------
(***************************************************************************)
(* Backfills over two dates, whose lists may repeat the first one or name  *)
(* it after the second.                                                    *)
(***************************************************************************)
EXTENDS Backfill

MCLists == {{2}, {1, 2}, {1, 3}, {2, 3}, {1, 2, 3}}
MCDateOf == << "d1", "d2", "d1" >>
=============================================================================

---------------------------- MODULE MCFuseServer ----------------------------
(***************************************************************************)
(* Instance of FuseServer for TLC: two clients, two workers, a directory of  *)
(* two entries read one or two at a time, one of one entry, one unreadable.  *)
(***************************************************************************)
EXTENDS FuseServer, TLC

MCDirEntries == "etc" :> <<"a", "b">> @@ "tmp" :> <<"c">> @@ "bad" :> <<"d">>

=============================================================================

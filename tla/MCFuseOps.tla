----------------------------- MODULE MCFuseOps -----------------------------
EXTENDS FuseOps, TLC

(* The root holds a directory, a link, and a file that has a second name in    *)
(* the directory.                                                            *)
Tree ==
  [root |-> "root",
   kind |-> "root" :> "dir" @@ "sub" :> "dir" @@ "file" :> "reg" @@ "link" :> "lnk",
   entries |->
     "root" :> ("." :> "root" @@ ".." :> "root" @@ "a" :> "sub" @@ "b" :> "file"
                @@ "l" :> "link")
     @@ "sub" :> ("." :> "sub" @@ ".." :> "root" @@ "b" :> "file")
     @@ "file" :> << >> @@ "link" :> << >>,
   xattrs |->
     "root" :> << >> @@ "sub" :> << >> @@ "link" :> << >>
     @@ "file" :> <<[name |-> "user", value |-> <<1, 2>>],
                    [name |-> "acl", value |-> << >>]>>]

Placed(r, s, f, l) ==
  Tree @@ [nid |-> "root" :> r @@ "sub" :> s @@ "file" :> f @@ "link" :> l]

(* As mkfs places them, and with the root behind other inodes.                *)
Placements == {Placed(0, 2, 1, 5), Placed(0, 1, 4, 2), Placed(3, 2, 4, 1),
               Placed(1, 2, 3, 4)}

MCAttrLen == "user" :> 2 @@ "acl" :> 1
=============================================================================

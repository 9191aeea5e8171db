---------------------------- MODULE MCTreeBuild ----------------------------
EXTENDS TreeBuild

(* Four files, of which 1 is the root; three names, of which the second is    *)
(* not text: as text it comes last.                                        *)
MCFiles == 1 .. 4
MCNames == 1 .. 3
MCLossy == <<1, 4, 3>>
MCXattrIndex == [user |-> 1, odd |-> 0]

None == [n \in MCNames |-> 0]
Dirs(targets, names) ==
  {f \in [MCNames -> targets \cup {0}] : \A n \in MCNames \ names : f[n] = 0}

Source(kinds, ents, other) ==
  [kind |-> kinds, ents |-> ents, other |-> other,
   xattrs |-> <<{"user"}, {"user", "odd"}, {}, {"odd"}>>]

Held(ents, f) == {<<d, n>> \in MCFiles \X MCNames : ents[d][n] = f}

(* Only directories have entries, a directory has one name, a file that has   *)
(* none is not there; the last file is there.                               *)
Legal(kinds, ents) ==
  /\ \A f \in MCFiles : kinds[f] # "dir" => ents[f] = None
  /\ \A f \in {2, 3} : kinds[f] = "dir" => Cardinality(Held(ents, f)) = 1
  /\ kinds[3] = "other" <=> Held(ents, 3) = {}
  /\ Held(ents, 2) = {} => kinds[2] = "other"
  /\ Held(ents, 4) # {}

MCKinds == {<<"dir", a, b, "reg">> : a \in {"dir", "other"}, b \in {"dir", "lnk", "other"}}
MCEnts == {<<r, a, b, None>> : r \in {d \in Dirs({2, 3, 4}, MCNames) : d[3] \in {0, 4}},
                              a \in Dirs({3, 4}, {1, 3}), b \in Dirs({4}, {2})}

(* Legal trees of these files                                                 *)
AllSources ==
  {Source(p[1], p[2], <<0, 0, 0, 0>>) :
     p \in {q \in MCKinds \X MCEnts : Legal(q[1], q[2])}}

(* Sources that turn into one another while they are read: a file with two    *)
(* links becomes a directory that holds a link to it, or goes away; a subtree  *)
(* moves; a directory becomes a file.                                      *)
At(a, b, c) == <<a, b, c>>
MovingSources ==
  {Source(<<"dir", "reg", "other", "other">>,
          <<At(2, 2, 0), None, None, None>>, <<0, 0, 0, 0>>),
   Source(<<"dir", "reg", "dir", "other">>,
          <<At(3, 2, 0), None, At(2, 0, 0), None>>, <<0, 0, 0, 0>>),
   Source(<<"dir", "reg", "dir", "dir">>,
          <<At(3, 2, 4), None, At(0, 2, 0), At(2, 0, 0)>>, <<0, 0, 0, 0>>),
   Source(<<"dir", "dir", "dir", "reg">>,
          <<At(2, 4, 0), At(4, 3, 0), At(4, 0, 0), None>>, <<0, 0, 0, 1>>),
   Source(<<"dir", "dir", "dir", "reg">>,
          <<At(3, 0, 0), At(4, 0, 4), At(2, 4, 0), None>>, <<0, 0, 0, 0>>),
   Source(<<"dir", "lnk", "other", "reg">>,
          <<At(0, 2, 4), None, None, None>>, <<0, 1, 0, 0>>)}

(* A name below the root that is a file first and a directory then *)
Replaced ==
  {Source(<<"dir", "dir", k, "other">>,
          <<At(2, 0, 0), At(3, 0, 0), None, None>>, <<0, 0, 0, 0>>) :
     k \in {"reg", "dir"}}
MCSources == AllSources \cup MovingSources
=============================================================================

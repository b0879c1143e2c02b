-------------------------------- MODULE Paths --------------------------------
(***************************************************************************)
(* What a path name means by the rules of symbolic links, as a reference   *)
(* for filereadlink() and filereadlinki().                                 *)
(***************************************************************************)
EXTENDS Dir

\* The inode that a path names, by the rules of symbolic links: a link stands for
\* its text, from the root if absolute, else from the directory it is in.  Zero
\* if there is none, or more than `fuel' links.
RECURSIVE Meaning(_, _, _, _, _)
Meaning(di, d, elems, follow, fuel) ==
  IF elems = <<>> THEN d
  ELSE IF di[d].type # "T_DIR" THEN 0
  ELSE LET i == di[d].ents[Head(elems)]
           rest == Tail(elems)
       IN IF i = 0 THEN 0
          ELSE IF di[i].type = "T_SYMLINK" /\ (rest # <<>> \/ follow)
          THEN IF fuel = 0 THEN 0
               ELSE Meaning(di, IF Absolute(di[i].text) THEN ROOTINO ELSE d,
                            Elems(di[i].text) \o rest, follow, fuel - 1)
          ELSE Meaning(di, i, rest, follow, fuel)

Names(p, path, follow) ==
  Meaning(fs.di, IF Absolute(path) THEN ROOTINO ELSE cwd[p], Elems(path), follow,
          MAX_SYMLINK_LOOPS)

\* What a path means to a call: the inode it names, or the directory and the name.
Denotes(p, path, nofollow) ==
  IF nofollow
  THEN LET d == Names(p, SubSeq(path, 1, Len(path) - 1), TRUE)
       IN <<IF d # 0 /\ fs.di[d].type = "T_DIR" THEN d ELSE 0, path[Len(path)]>>
  ELSE <<Names(p, path, TRUE), "">>

\* Each step of filereadlink() leaves the meaning of the path alone: an element
\* passed over, a link replaced by its text; and it fails only if the path names
\* nothing or has too many links.  (If what namei() found has not been replaced
\* or removed by another process in the meantime.)
ReadlinkKeepsMeaning ==
  [][\A p \in Proc :
       readlink(p) /\ Names(p, Append(pr[p].res, Head(pr[p].orig)), FALSE) = pr[p].cur =>
         LET l == pr[p]
             m == pr'[p]
             before == Denotes(p, l.res \o l.orig, NoFollow(l))
         IN CASE m.pc = "user" -> l.op = "readlink" \/ before[1] = 0
              [] m.pc # "create_begin" /\ m.ret = "readlink" ->
                   Denotes(p, m.res \o m.orig, NoFollow(l)) = before
              [] OTHER -> Denotes(p, m.path, NoFollow(l)) = before]_vars
-----------------------------------------------------------------------------
Entries(di, i) == { e \in Inode \X Name : di[e[1]].type = "T_DIR" /\ di[e[1]].ents[e[2]] = i }
Subdirs(di, i) == { n \in Name : di[i].ents[n] # 0 /\ di[di[i].ents[n]].type = "T_DIR" }

\* In a file system at rest the link count of an inode is the number of its names,
\* plus one for each directory in it, and every name has an inode.
Consistent(di) ==
  \A i \in Inode :
    /\ di[i].nlink = Count(Entries(di, i)) + Count(Subdirs(di, i))
                     + (IF i = ROOTINO THEN 1 ELSE 0)
    /\ Entries(di, i) # {} => di[i].type # "none"

\* The names and the link counts agree whenever no call is in a transaction, and
\* after a crash at any point.
LinkCounts ==
  /\ Consistent(home)
  /\ fs.trans = None /\ ~fs.panic => fs.di = home
=============================================================================

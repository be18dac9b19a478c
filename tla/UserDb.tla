------------------------------- MODULE UserDb -------------------------------
(***************************************************************************)
(* The user database: the lines of /etc/passwd and /etc/group as the       *)
(* library of user/uauth.c and user/uauthgrp.c keeps them, under the       *)
(* programs useradd, usermod, groupadd, passwd and getty.                  *)
(*                                                                         *)
(* A line is a record, and replacing or adding one is a step: how bytes    *)
(* are moved is in module TextFile.  One administration program runs at a  *)
(* time, as the programs take no lock; it may be killed, or the machine    *)
(* may stop, between two of its writes.  Logins come in at any time.       *)
(* A user name is one character, so that the list of a group's users is    *)
(* the string the code cuts and joins: names and commas.                   *)
(***************************************************************************)
EXTENDS Integers, SequencesExt, FiniteSetsExt

CONSTANTS
  Name,       \* user and group names, "r" is root
  Password,   \* passwords; "" is none
  FirstId,    \* availableuid and availablegid
  MaxId,      \* bound: the ids asked for
  MaxLines,   \* bound: lines of a file
  MaxList     \* bound: the length of a list of users

VARIABLES
  passwd,     \* lines: name, pwd, uid, gid
  group,      \* lines: name, gid, users
  adm,        \* the administration program that runs and how far it is
  getty,      \* the terminal: gids collected; of a shell the user's uid and gid, and
              \* (history) whether a rename was under way when it started
  hurt        \* history: a rename was cut short, or cut a name from inside a list

vars == <<passwd, group, adm, getty, hurt>>

NoAdm == [at |-> "idle", name |-> "", new |-> "", uid |-> 0, grp |-> "", k |-> 0]
Login == [at |-> "login", gids |-> {}, uid |-> 0, gid |-> 0, amid |-> FALSE]

\* A line of /etc/passwd and one of /etc/group: what writeuser() and writegroup() put
\* down is what user() and group() read, whatever is in the fields.
UserLine(n, pwd, u, g) == [name |-> n, pwd |-> pwd, uid |-> u, gid |-> g]
GroupLine(n, g, users) == [name |-> n, gid |-> g, users |-> users]

\* cfg/passwd and cfg/group.
Init ==
  /\ passwd = <<UserLine("r", "x", 0, 0)>>
  /\ group = <<GroupLine("r", 0, <<"r">>)>>
  /\ adm = NoAdm
  /\ getty = Login
  /\ hurt = FALSE

-----------------------------------------------------------------------------
(***************************************************************************)
(* The library.                                                            *)
(***************************************************************************)
NOTFOUND == -1

\* finduserbyname(), finduserbyuid(), findgroupbyname(), findgroupbygid(): the first
\* line that has it.
LineOf(file, Has(_)) ==
  IF \E i \in DOMAIN file : Has(file[i])
  THEN Min({i \in DOMAIN file : Has(file[i])}) ELSE NOTFOUND

UserNamed(n)  == LineOf(passwd, LAMBDA l : l.name = n)
UserWith(u)   == LineOf(passwd, LAMBDA l : l.uid = u)
GroupNamed(n) == LineOf(group, LAMBDA l : l.name = n)
GroupWith(g)  == LineOf(group, LAMBDA l : l.gid = g)

\* The search for an id nobody has.
FreeId(used) == Min((FirstId .. FirstId + MaxLines) \ used)

\* The place of a name in a list: at its start or after a comma, up to the next.
findstrinsetdivsep(n, list) ==
  LET places == {i \in 0 .. Len(list) - 1 :
                   /\ i = 0 \/ list[i] = ","
                   /\ list[i + 1] = n
                   /\ i + 1 = Len(list) \/ list[i + 2] = ","}
  IN IF places = {} THEN NOTFOUND ELSE Min(places)

\* Fault: an empty list is not told from one with names.
addusertogroupComma(n, list) ==
  IF findstrinsetdivsep(n, list) > 0 THEN list ELSE list \o <<",", n>>

\* The place 0 is not taken for found.
addusertogroup(n, list) ==
  IF list = <<>> THEN <<n>>
  ELSE IF findstrinsetdivsep(n, list) > 0 THEN list
  ELSE list \o <<",", n>>

\* The lists that may come out of removing a name: what follows is copied from one
\* place too far, and if nothing does, the new list is not terminated and any
\* character of the heap may follow.
removeuserfromgroup(n, list) ==
  LET place == findstrinsetdivsep(n, list)
      code  == IF place > 0 THEN place - 1 ELSE 0
      end   == code + (IF place > 0 THEN 2 ELSE 1) + 1
  IN CASE place = NOTFOUND -> {list}
       [] place = 0 /\ Len(list) = 1 -> {<<>>}
       [] OTHER -> {SubSeq(list, 1, code) \o rest :
                      rest \in IF end < Len(list) THEN {SubSeq(list, end + 1, Len(list))}
                               ELSE {<<>>, <<"?">>}}

\* changegroups() with one group.  Its loop that removes the user from other groups
\* stops at once, as getline() returns 0 for a line it has read.
changegroups(n, g) ==
  IF GroupNamed(g) = NOTFOUND THEN group
  ELSE [group EXCEPT ![GroupNamed(g)].users = addusertogroup(n, @)]

\* Fault: the first of a list is not found.
getgidsAfterFirst(n) == {l.gid : l \in {l \in Range(group) : findstrinsetdivsep(n, l.users) > 0}}

getgids(n) == {l.gid : l \in {l \in Range(group) : findstrinsetdivsep(n, l.users) >= 0}}

-----------------------------------------------------------------------------
(***************************************************************************)
(* useradd and groupadd.                                                   *)
(***************************************************************************)
Rest == adm' = NoAdm
Goto(loc) == adm' = [adm EXCEPT !.at = loc]

\* adduser() up to its first write; u = 0 asks for a free uid.
useradd(n, u) ==
  /\ adm.at = "idle" /\ Len(passwd) < MaxLines /\ Len(group) < MaxLines
  /\ UserNamed(n) = NOTFOUND
  /\ u # 0 => UserWith(u) = NOTFOUND
  /\ adm' = [NoAdm EXCEPT !.at = "addgroup", !.name = n,
                          !.uid = IF u = 0 THEN FreeId({l.uid : l \in Range(passwd)}) ELSE u]
  /\ UNCHANGED <<passwd, group, getty, hurt>>

\* addgroup(username, uid)
addgroup ==
  /\ adm.at = "addgroup"
  /\ IF GroupNamed(adm.name) = NOTFOUND /\ GroupWith(adm.uid) = NOTFOUND
     THEN /\ group' = Append(group, GroupLine(adm.name, adm.uid, <<>>))
          /\ Goto("join")
     ELSE Rest /\ UNCHANGED group
  /\ UNCHANGED <<passwd, getty, hurt>>

\* changegroups(username, username, 0)
join ==
  /\ adm.at = "join"
  /\ group' = changegroups(adm.name, adm.name)
  /\ Goto("writeuser")
  /\ UNCHANGED <<passwd, getty, hurt>>

\* writeuser(): a line is added.
writeuser ==
  /\ adm.at = "writeuser"
  /\ passwd' = Append(passwd, UserLine(adm.name, "", adm.uid, adm.uid))
  /\ Rest
  /\ UNCHANGED <<group, getty, hurt>>

groupadd(n, g) ==
  /\ adm.at = "idle" /\ Len(group) < MaxLines
  /\ GroupNamed(n) = NOTFOUND
  /\ g # 0 => GroupWith(g) = NOTFOUND
  /\ group' = Append(group,
       GroupLine(n, IF g = 0 THEN FreeId({l.gid : l \in Range(group)}) ELSE g, <<>>))
  /\ UNCHANGED <<passwd, adm, getty, hurt>>

-----------------------------------------------------------------------------
(***************************************************************************)
(* usermod.                                                                *)
(***************************************************************************)
\* changeuser(): new = "" and u = 0 leave name and uid; g = "" asks for no group.
usermod(n, new, u, g) ==
  LET l == UserNamed(n) IN
  /\ adm.at = "idle" /\ l # NOTFOUND
  /\ ~hurt /\ \A i \in DOMAIN group : Len(group[i].users) < MaxList   \* bounds
  /\ new # "" => UserNamed(new) = NOTFOUND
  /\ u # 0 => UserWith(u) = NOTFOUND
  /\ passwd' = [passwd EXCEPT ![l].name = IF new # "" THEN new ELSE @,
                              ![l].uid = IF u # 0 THEN u ELSE @]
  /\ adm' = [NoAdm EXCEPT !.at = IF new # "" THEN "rename" ELSE "old", !.name = n,
                          !.new = new, !.grp = g, !.k = 1]
  /\ UNCHANGED <<group, getty, hurt>>

\* Fault: the first of a list is not taken for found.
RemovedAfterFirst(place) == place > 0

\* removeuserfromgroup() returns no error.
Removed(place) == place >= 0

\* A turn of updateusername()'s loop over the groups.
rename ==
  LET list == group[adm.k].users
      place == findstrinsetdivsep(adm.name, list)
  IN
  /\ adm.at = "rename" /\ adm.k <= Len(group)
  /\ IF ~Removed(place) THEN UNCHANGED group
     ELSE \E left \in removeuserfromgroup(adm.name, list) :
            group' = [group EXCEPT ![adm.k].users = addusertogroup(adm.new, left)]
  /\ adm' = [adm EXCEPT !.k = @ + 1]
  /\ hurt' = (hurt \/ place > 0)
  /\ UNCHANGED <<passwd, getty>>

\* changegroups() for the new name, and for the old one also when it is gone.
modgroups ==
  /\ \/ adm.at = "rename" /\ adm.k > Len(group) /\ Goto("old")
        /\ group' = changegroups(adm.new, adm.grp)
     \/ adm.at = "old" /\ Rest /\ group' = changegroups(adm.name, adm.grp)
  /\ UNCHANGED <<passwd, getty, hurt>>

\* The program is killed, or the machine stops.
stop ==
  /\ adm.at # "idle"
  /\ Rest
  /\ hurt' = (hurt \/ adm.at = "rename")
  /\ UNCHANGED <<passwd, group, getty>>

-----------------------------------------------------------------------------
(***************************************************************************)
(* getty and passwd.                                                       *)
(***************************************************************************)
\* A turn of getty's loop.  home: chdir() to the home directory works.  The test
\* after authuid() looks at the function, not at its result, so that the groups of
\* the name are collected whatever it is.
login(n, pwd, home) ==
  LET l == UserNamed(n)
      gids == getty.gids \cup getgids(n)
  IN
  /\ getty.at = "login"
  /\ getty' = IF l # NOTFOUND /\ passwd[l].pwd \in {"", pwd} /\ home
              THEN [at |-> "shell", gids |-> gids, uid |-> passwd[l].uid,
                    gid |-> passwd[l].gid, amid |-> adm.at = "rename"]
              ELSE [getty EXCEPT !.gids = gids]
  /\ UNCHANGED <<passwd, group, adm, hurt>>

logout ==
  /\ getty.at = "shell"
  /\ getty' = Login
  /\ UNCHANGED <<passwd, group, adm, hurt>>

\* /etc/passwd after changepass(): the superuser may change every password, others
\* their own if they know it or have none.
changepass(n, old, new) ==
  LET l == UserNamed(n) IN
  IF /\ l # NOTFOUND
     /\ getty.uid # 0 => getty.uid = passwd[l].uid /\ passwd[l].pwd \in {"", old}
  THEN [passwd EXCEPT ![l].pwd = new] ELSE passwd

\* The passwd program, from a shell.
passwdmain(n, old, new) ==
  /\ getty.at = "shell" /\ adm.at = "idle"
  /\ passwd' = changepass(n, old, new)
  /\ UNCHANGED <<group, adm, getty, hurt>>

Next ==
  \/ addgroup \/ join \/ writeuser \/ rename \/ modgroups \/ stop \/ logout
  \/ \E n \in Name :
       \/ \E u \in 0 .. MaxId : useradd(n, u) \/ groupadd(n, u)
       \/ \E new \in Name \cup {""}, u \in 0 .. MaxId, g \in Name \cup {""} : usermod(n, new, u, g)
       \/ \E pwd \in Password \cup {""}, home \in BOOLEAN : login(n, pwd, home)
       \/ \E old, new \in Password : passwdmain(n, old, new)

Spec == Init /\ [][Next]_vars

-----------------------------------------------------------------------------
(***************************************************************************)
(* Types; in a list of users, commas stand between names only.             *)
(***************************************************************************)
TypeOK ==
  /\ \A l \in Range(passwd) :
       l.name \in Name /\ l.pwd \in Password \cup {""} /\ l.uid \in Nat /\ l.gid \in Nat
  /\ \A l \in Range(group) :
       l.name \in Name /\ l.gid \in Nat /\ Range(l.users) \subseteq Name \cup {",", "?"}
       /\ \A i \in DOMAIN l.users : l.users[i] = "," =>
            i \in 2 .. Len(l.users) - 1 /\ l.users[i + 1] # ","
  /\ adm.at \in {"idle", "addgroup", "join", "writeuser", "rename", "old"}
  /\ getty.at \in {"login", "shell"}

(***************************************************************************)
(* No two lines of /etc/passwd share a name or a uid and no two lines of   *)
(* /etc/group a name or a gid, after any sequence of useradd, groupadd and *)
(* usermod, stopped half way or not: the searches return the one line.     *)
(***************************************************************************)
KeysUnique ==
  /\ \A i, j \in DOMAIN passwd : i # j =>
       passwd[i].name # passwd[j].name /\ passwd[i].uid # passwd[j].uid
  /\ \A i, j \in DOMAIN group : i # j =>
       group[i].name # group[j].name /\ group[i].gid # group[j].gid

(***************************************************************************)
(* The gid of every user is that of a group: adduser() writes the group    *)
(* first, the user last, so a stop between its writes leaves a group too   *)
(* many and never a user without one.                                      *)
(***************************************************************************)
GroupOfUser == \A l \in Range(passwd) : GroupWith(l.gid) # NOTFOUND

Listed(l) == findstrinsetdivsep(l.name, group[GroupWith(l.gid)].users) # NOTFOUND

(***************************************************************************)
(* Every user is in the list of the group with their gid, through renames  *)
(* too, as long as updateusername() was neither cut short nor had to take  *)
(* a name from behind another: removeuserfromgroup() then joins the names  *)
(* around it, or leaves the list without an end.                           *)
(***************************************************************************)
OwnMember == ~hurt /\ adm.at # "rename" => \A l \in Range(passwd) : Listed(l)

(***************************************************************************)
(* A shell that getty starts has its user's own group among its groups,    *)
(* whatever administration runs next to the login, but for a rename that   *)
(* has written /etc/passwd and not yet the groups.                         *)
(***************************************************************************)
ShellHasOwnGroup == getty.at = "shell" /\ ~hurt /\ ~getty.amid => getty.gid \in getty.gids
=============================================================================

------------------------------- MODULE Roles -------------------------------
(***************************************************************************)
(* Who may do what: the stored appointments, the role a session acts in,   *)
(* and the console where administrators move people between groups.  A     *)
(* console works on the list it loaded last, and a change passes its       *)
(* guards before its transaction starts.                                   *)
(***************************************************************************)
EXTENDS Naturals, Sequences, FiniteSets

CONSTANTS Sub,         \* users
          Managers,    \* users who are administrators at the start
          LocalAdmin,  \* the break-glass account, restored on every start
          ByEmail,     \* users QLHS_ADMIN_EMAILS makes administrators at login
          DccRoles,    \* the roles of the desks that occur
          MaxChanges   \* bound: changes of roles begun

ASSUME RolesAssumption ==
  /\ LocalAdmin \in Sub /\ LocalAdmin \in Managers /\ Managers \subseteq Sub
  /\ ByEmail \subseteq Sub /\ DccRoles \subseteq {"DCC1", "DCC2", "DCC3"}
  /\ MaxChanges \in Nat

VARIABLES roles,      \* roles[u]: rows of user_role
          remembered, \* remembered[u]: active role in u's session, or "none"
          console,    \* console[u]: the user list u's console has loaded
          toast,      \* toast[u]: the removal u's console offers to undo
          changes,    \* PUT requests past their guards
          begun

rolesVars == <<roles, remembered, console, toast, changes, begun>>

AllRoles == <<"Admin", "Applicant", "DCC1", "DCC2", "DCC3">>
Groups == <<"Admin", "DCC1", "DCC2", "DCC3">>
Managed == DccRoles \cup {"Admin"}
NoToast == [target |-> "none", roles |-> {}]

Admins == {u \in Sub : "Admin" \in roles[u]}

EffectiveRoles(held) == IF held = {} THEN {"Applicant"} ELSE held

\* Fault: the session's role is taken as it was when it was chosen.
RememberedRole(held, kept) == IF kept = "none" THEN Head(SelectSeq(AllRoles, LAMBDA r : r \in held))
                              ELSE kept

\* The role kept by the session if it is still held; else the first one held in
\* the order of AllRoles, and Admin only as a last resort.
ResolveActiveRole(held, kept) ==
  LET Other(i) == AllRoles[i] \in held \ {"Admin"}
  IN  IF kept \in held THEN kept
      ELSE IF held \subseteq {"Admin"} THEN "Admin"
      ELSE AllRoles[CHOOSE i \in 1..5 : Other(i) /\ \A j \in 1..(i - 1) : ~Other(j)]

ActiveRole(u) == ResolveActiveRole(EffectiveRoles(roles[u]), remembered[u])

RolesInit ==
  /\ roles = [u \in Sub |-> IF u \in Managers THEN {"Admin"} ELSE {}]
  /\ remembered = [u \in Sub |-> "none"]
  /\ console = [u \in Sub |-> roles]
  /\ toast = [u \in Sub |-> NoToast]
  /\ changes = {}
  /\ begun = 0

SetActiveRole(u, role) ==
  /\ role \in EffectiveRoles(roles[u])
  /\ remembered' = [remembered EXCEPT ![u] = role]
  /\ UNCHANGED <<roles, console, toast, changes, begun>>

\* Fault: an administrator may strip their own role.
AnyTarget(author, target, new) == TRUE

AssertNotSelfLockout(author, target, new) == author # target \/ "Admin" \in new

\* PUT users/:sub/roles, sent by the author's console: guards of route and handler.
Put(author, target, new, was) ==
  /\ begun < MaxChanges
  /\ ActiveRole(author) = "Admin"
  /\ AssertNotSelfLockout(author, target, new)
  /\ changes' = changes \cup
       {[author |-> author, target |-> target, roles |-> new, was |-> was]}
  /\ begun' = begun + 1

\* The first group of a person who is in several.
GroupOf(a, u) ==
  LET held == SelectSeq(Groups, LAMBDA g : g \in console[a][u])
  IN  IF held = <<>> THEN "none" ELSE Head(held)

\* Whom a console lists under a group, and whom its search finds for it.
Members(a, group) == {u \in Sub : GroupOf(a, u) = group}
Candidates(a, group) == Sub \ Members(a, group)

\* Fault: the new group is added to those the user is in.
AssignAlso(a, u, to) ==
  /\ u \in Candidates(a, to)
  /\ Put(a, u, console[a][u] \cup {to}, {})
  /\ UNCHANGED <<roles, remembered, console, toast>>

\* One group each: appointing is moving.
Assign(a, u, to) ==
  /\ u \in Candidates(a, to)
  /\ Put(a, u, (console[a][u] \ Managed) \cup {to}, {})
  /\ UNCHANGED <<roles, remembered, console, toast>>

Remove(a, u) ==
  /\ \E g \in Managed : u \in Members(a, g)
  /\ Put(a, u, console[a][u] \ Managed, console[a][u])
  /\ UNCHANGED <<roles, remembered, console, toast>>

\* The toast writes back the roles its list showed, whatever they are by now.
UndoRemove(a) ==
  /\ toast[a] # NoToast
  /\ Put(a, toast[a].target, toast[a].roles, {})
  /\ toast' = [toast EXCEPT ![a] = NoToast]
  /\ UNCHANGED <<roles, remembered, console>>

\* setRoles, in one transaction; the console loads its list again and, after a
\* removal, offers to undo it.
SetRoles(q) ==
  /\ roles' = [roles EXCEPT ![q.target] = q.roles]
  /\ console' = [console EXCEPT ![q.author] = roles']
  /\ toast' = IF q.was = {} THEN toast
              ELSE [toast EXCEPT ![q.author] = [target |-> q.target, roles |-> q.was]]
  /\ changes' = changes \ {q}
  /\ UNCHANGED <<remembered, begun>>

Load(a) ==
  /\ "Admin" = ActiveRole(a)
  /\ console' = [console EXCEPT ![a] = roles]
  /\ UNCHANGED <<roles, remembered, toast, changes, begun>>

EnsureRole(u) == roles' = [roles EXCEPT ![u] = @ \cup {"Admin"}]

\* A new session, with no role chosen yet; its owner may be one of adminEmails.
Login(u) ==
  /\ IF u \in ByEmail THEN EnsureRole(u) ELSE UNCHANGED roles
  /\ remembered' = [remembered EXCEPT ![u] = "none"]
  /\ UNCHANGED <<console, toast, changes, begun>>

\* Sessions and requests die with the process; the local account is restored.
RestartApi ==
  /\ EnsureRole(LocalAdmin)
  /\ remembered' = [u \in Sub |-> "none"]
  /\ changes' = {}
  /\ UNCHANGED <<console, toast, begun>>

RolesNext ==
  \/ \E u \in Sub : \/ \E r \in Managed : SetActiveRole(u, r)
                    \/ Load(u) \/ Login(u) \/ UndoRemove(u)
  \/ \E a, u \in Sub : Remove(a, u) \/ \E to \in Managed : Assign(a, u, to)
  \/ \E q \in changes : SetRoles(q)
  \/ RestartApi

RolesSpec == RolesInit /\ [][RolesNext]_rolesVars
-----------------------------------------------------------------------------
\* Appointed by the console, a person is in one group at most ("1 người chỉ 1
\* vai trong 1 nhóm"), though consoles are stale, changes cross and removals are
\* undone late; only accounts that are made Admin behind its back may be in two.
OneRoleInOneGroup ==
  \A u \in Sub \ (ByEmail \cup {LocalAdmin}) : Cardinality(roles[u] \cap Managed) <= 1

\* The console is left without an administrator ("no admin left to restore it")
\* only when two of them demote each other at the same time.
LastAdminFallsToARace ==
  [][Admins # {} /\ Admins' = {} =>
       \E q \in changes \ changes' : q.author \notin Admins]_rolesVars

\* "An Admin's grant or revocation takes effect on the user's next request": a
\* change begins only while its author holds the role, whatever role his session
\* has chosen.
RevocationTakesEffect ==
  [][\A q \in changes' \ changes : q.author \in Admins]_rolesVars
=============================================================================

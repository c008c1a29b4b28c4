-------------------------------- MODULE Users --------------------------------
(***************************************************************************)
(* The users service (services/usuarios): requests that all want one user  *)
(* name, to register it for a new user or to rename a user to it, each its *)
(* own.  register looks first and inserts then; updateUser does not look.  *)
(* What keeps the name unique is the database: a write of a name that an   *)
(* unfinished transaction has written waits for it to end.                 *)
(***************************************************************************)
EXTENDS ServiceRuns

VARIABLES
  owner,      (* the request whose user has the name; Free: nobody has     *)
  holder      (* the run that has written it and not committed             *)

users == <<owner, holder>>

UsersTypeOK ==
  /\ owner \in Requests \union {Free}
  /\ holder \in Runs \union {Free}

UsersInit == owner = Free /\ holder = Free

(* existsByUsername; existsByEmail is of the same form.                    *)
CheckUsername(x) ==
  /\ Is(x, "register")
  /\ IF owner = Free
       THEN Moves(x, "begin", "checked") /\ UNCHANGED reply
       ELSE Ends(x, "begin", "taken")
  /\ UNCHANGED <<kind, commits, users>>

(* updateUser reads its own user, if there is one, and not who has the new *)
(* name.                                                                   *)
FindUser(x) ==
  /\ \/ Is(x, "rename") /\ Moves(x, "begin", "checked") /\ UNCHANGED reply
     \/ Is(x, "rename unknown") /\ Ends(x, "begin", "error")
  /\ UNCHANGED <<kind, commits, users>>

(* Mutant: the column has no unique constraint.                            *)
ClaimNameUnchecked(x) ==
  /\ holder = Free
  /\ Moves(x, "checked", "written")
  /\ holder' = x
  /\ UNCHANGED <<kind, reply, commits, owner>>

(* A write of the name, once no unfinished transaction has written it.     *)
ClaimName(x) ==
  /\ holder = Free
  /\ IF owner = Free
       THEN Moves(x, "checked", "written") /\ holder' = x /\ UNCHANGED reply
       ELSE Ends(x, "checked", "taken") /\ UNCHANGED holder
  /\ UNCHANGED <<kind, commits, owner>>

(* save inserts the new user at once, to learn its id.                     *)
InsertUser(x) ==
  /\ Is(x, "register")
  /\ ClaimName(x)

(* save leaves the update to the commit, and there is none if an earlier   *)
(* run of the request has given the user that name.                        *)
UpdateUser(x) ==
  /\ Is(x, "rename")
  /\ \/ owner # x[1] /\ ClaimName(x)
     \/ /\ owner = x[1] /\ holder = Free
        /\ Ends(x, "checked", "granted")
        /\ UNCHANGED <<kind, commits, users>>

CommitUser(x) ==
  /\ Ends(x, "written", "granted")
  /\ owner' = x[1]
  /\ holder' = Free
  /\ commits' = commits \union {x}
  /\ UNCHANGED kind

(* A transaction that is rolled back lets go of the name.                  *)
ReleaseName(x) == holder' = IF holder = x THEN Free ELSE holder

UserStep(x) ==
  \/ CheckUsername(x) \/ InsertUser(x)
  \/ FindUser(x) \/ UpdateUser(x)
  \/ CommitUser(x)

=============================================================================

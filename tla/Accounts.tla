------------------------------ MODULE Accounts ------------------------------
(***************************************************************************)
(* Accounts: registration, login, the token in a browser's cookie and the  *)
(* settings page, as internal/auth and the web handlers do them.  A        *)
(* handler is some statements on the users table, with other handlers,     *)
(* failures and crashes in between; its answer reaches the browser later,  *)
(* or never.                                                               *)
(***************************************************************************)
EXTENDS Integers, Sequences

CONSTANTS
  Browsers,     \* people, each at a browser
  Names,        \* usernames
  Passwords,    \* passwords they use
  Short,        \* those of less than 8 characters
  Shown,        \* display names they choose
  MaxFaults     \* bound: crashes and failing statements

ASSUME AccountsAssumption ==
  /\ Short \subseteq Passwords /\ "" \notin Names \cup Passwords \cup Shown
  /\ MaxFaults \in Nat

VARIABLES
  users,        \* the users table; a row's index is its id
  cookie,       \* the token in each browser's cookie
  req,          \* each one's request in flight
  faults,       \* how many faults there have been
  told,         \* ghost: per account, what its users may take for stored
  earned,       \* ghost: the accounts each one has shown to be theirs
  knew,         \* ghost: whose request gave a password that was right at some time since
  alone         \* ghost: whose change of an account no other has run beside

ghosts == <<told, earned, knew, alone>>
vars == <<users, cookie, req, faults, ghosts>>

Ids     == 1 .. Len(users)
NoToken == [id |-> 0, valid |-> "no"]

\* A request: where its handler is, the account of its token, its form and its
\* answer.  A registration has the confirmation in new.
Request ==
  [kind : {"idle", "register", "login", "settings"},
   at : {"create", "name", "check", "change", "done"},
   id : Nat, name : Names \cup {""}, pw : Passwords \cup {""},
   new : Passwords \cup {""}, shown : Shown \cup {""},
   answer : {"", "entry", "refused", "saved", "name not saved", "password not saved"}]

Idle == [kind |-> "idle", at |-> "done", id |-> 0, name |-> "", pw |-> "",
         new |-> "", shown |-> "", answer |-> ""]

InFlight(b) == req[b].kind # "idle"
At(b, kinds, place) == req[b].kind \in kinds /\ req[b].at = place
Changes(b, id) == req[b].kind = "settings" /\ req[b].id = id

Fails == faults < MaxFaults /\ faults' = faults + 1

-----------------------------------------------------------------------------
(* The auth service *)

\* Authenticate: the row with the name, if its hash is that of the password.
Authenticated(us, name, pw) ==
  {i \in DOMAIN us : us[i].name = name /\ us[i].pw = pw}

\* Mutant: no UNIQUE on usernames.
NeverTaken(name) == FALSE

Taken(name) == \E i \in Ids : users[i].name = name

\* Mutant: INSERT OR IGNORE, and a token for whatever row has the name.
TakenOver(name) ==
  [answer |-> "entry", id |-> CHOOSE i \in Ids : users[i].name = name]

\* UNIQUE makes the INSERT of a name that is taken fail.
TakenAnswer(name) == [answer |-> "refused", id |-> 0]

-----------------------------------------------------------------------------
(* Requests *)

\* Whether request r has the password of its account in table us.
Right(r, us) ==
  \E i \in DOMAIN us :
    /\ IF r.kind = "settings" THEN i = r.id ELSE us[i].name = r.name
    /\ us[i].pw = r.pw

Sends(b, r) ==
  /\ ~InFlight(b)
  /\ req' = [req EXCEPT ![b] = r]
  /\ knew' = IF Right(r, users) THEN knew \cup {b} ELSE knew

\* Those in cs whose request has the right password now, in table us.
Know(cs, us) == knew \cup {c \in cs : Right(req[c], us)}

\* The handler at b ends with an answer; what it has saved stays of the form.
Answers(b, answer, id) ==
  req' = [req EXCEPT ![b] =
    [req[b] EXCEPT !.at = "done", !.answer = answer, !.id = id, !.pw = "",
       !.new   = IF answer = "saved" THEN req[b].new ELSE "",
       !.shown = IF answer = "name not saved" THEN "" ELSE req[b].shown]]

Goes(b, place) == req' = [req EXCEPT ![b].at = place]

\* The answer has arrived.
Ends(b) ==
  /\ req' = [req EXCEPT ![b] = Idle]
  /\ knew' = knew \ {b}
  /\ alone' = alone \ {b}

-----------------------------------------------------------------------------
(* Registration and login *)

SendRegister(b) ==
  /\ \E name \in Names, pw, confirm \in Passwords :
       Sends(b, [Idle EXCEPT !.kind = "register", !.at = "create",
                             !.name = name, !.pw = pw, !.new = confirm])
  /\ UNCHANGED <<users, cookie, faults, told, earned, alone>>

SendLogin(b) ==
  /\ \E name \in Names, pw \in Passwords :
       Sends(b, [Idle EXCEPT !.kind = "login", !.at = "check",
                             !.name = name, !.pw = pw])
  /\ UNCHANGED <<users, cookie, faults, told, earned, alone>>

\* The form is refused before the table is asked.
Refuses(r) == r.pw \in Short \/ r.pw # r.new

RefuseRegistration(b) ==
  /\ At(b, {"register"}, "create")
  /\ Refuses(req[b])
  /\ Answers(b, "refused", 0)
  /\ UNCHANGED <<users, cookie, faults, ghosts>>

\* One transaction, and a token for the row it has made.
CreateUser(b) ==
  LET r   == req[b]
      row == [name |-> r.name, pw |-> r.pw, shown |-> r.name]
      no  == TakenAnswer(r.name)
  IN
  /\ At(b, {"register"}, "create")
  /\ ~Refuses(r)
  /\ \/ /\ ~Taken(r.name)
        /\ users' = Append(users, row)
        /\ told' = Append(told, [pw |-> {r.pw}, shown |-> {r.name}])
        /\ Answers(b, "entry", Len(users) + 1)
        /\ knew' = Know(Browsers, users')
        /\ UNCHANGED faults
     \/ /\ Taken(r.name)
        /\ Answers(b, no.answer, no.id)
        /\ UNCHANGED <<users, told, knew, faults>>
     \/ /\ Fails
        /\ Answers(b, "refused", 0)
        /\ UNCHANGED <<users, told, knew>>
  /\ UNCHANGED <<cookie, earned, alone>>

\* A failing SELECT is answered like a wrong password.
Login(b) ==
  LET found == Authenticated(users, req[b].name, req[b].pw) IN
  /\ At(b, {"login"}, "check")
  /\ \/ (\E i \in found : Answers(b, "entry", i)) /\ UNCHANGED faults
     \/ found = {} /\ Answers(b, "refused", 0) /\ UNCHANGED faults
     \/ Fails /\ Answers(b, "refused", 0)
  /\ UNCHANGED <<users, cookie, ghosts>>

\* The answer arrives: a cookie, or the form again.
Enter(b) ==
  LET r    == req[b]
      mine == IF b \in knew THEN {i \in Ids : users[i].name = r.name} ELSE {}
  IN
  /\ At(b, {"register", "login"}, "done")
  /\ cookie' = IF r.answer = "entry"
               THEN [cookie EXCEPT ![b] = [id |-> r.id, valid |-> "yes"]]
               ELSE cookie
  /\ earned' = [earned EXCEPT ![b] = @ \cup mine]
  /\ Ends(b)
  /\ UNCHANGED <<users, faults, told>>

Logout(b) ==
  /\ ~InFlight(b) /\ cookie[b] # NoToken
  /\ cookie' = [cookie EXCEPT ![b] = NoToken]
  /\ UNCHANGED <<users, req, faults, ghosts>>

\* 24 hours after the token was made.
Expire(b) ==
  /\ cookie[b].valid = "yes"
  /\ cookie' = [cookie EXCEPT ![b].valid = "no"]
  /\ UNCHANGED <<users, req, faults, ghosts>>

-----------------------------------------------------------------------------
(* The settings page *)

\* The middleware takes the account from the token, and does not ask the table.
SendSettings(b) ==
  LET id     == cookie[b].id
      beside == {c \in Browsers : Changes(c, id)}
  IN
  /\ cookie[b].valid = "yes"
  /\ \E shown \in Shown \cup {""}, pw, new \in Passwords \cup {""} :
       Sends(b, [Idle EXCEPT !.kind = "settings", !.at = "name", !.id = id,
                             !.name = users[id].name, !.shown = shown,
                             !.pw = pw, !.new = new])
  /\ alone' = (alone \ beside) \cup (IF beside = {} THEN {b} ELSE {})
  /\ UNCHANGED <<users, cookie, faults, told, earned>>

\* ... a token that is not valid takes the browser to the login page.
Redirect(b) ==
  /\ ~InFlight(b) /\ cookie[b] # NoToken /\ cookie[b].valid = "no"
  /\ cookie' = [cookie EXCEPT ![b] = NoToken]
  /\ UNCHANGED <<users, req, faults, ghosts>>

UpdateDisplayName(b) ==
  LET r == req[b] IN
  /\ At(b, {"settings"}, "name")
  /\ \/ /\ r.shown # ""
        /\ users' = [users EXCEPT ![r.id].shown = r.shown]
        /\ Goes(b, "check")
        /\ UNCHANGED faults
     \/ /\ r.shown = ""
        /\ Goes(b, "check")
        /\ UNCHANGED <<users, faults>>
     \/ /\ r.shown # "" /\ Fails
        /\ Answers(b, "name not saved", r.id)
        /\ UNCHANGED users
  /\ UNCHANGED <<cookie, ghosts>>

\* Mutant: the new password is stored, and the present one checked after it.
StoresFirst(r) == r.new # "" /\ r.pw # ""

\* A new password is given, and the present one, which is right.
MayChange(r) ==
  r.new # "" /\ r.pw # "" /\ Authenticated(users, r.name, r.pw) # {}

CheckPassword(b) ==
  LET r == req[b] IN
  /\ At(b, {"settings"}, "check")
  /\ \/ r.new = "" /\ Answers(b, "saved", r.id) /\ UNCHANGED faults
     \/ MayChange(r) /\ Goes(b, "change") /\ UNCHANGED faults
     \/ /\ r.new # "" /\ ~MayChange(r)
        /\ Answers(b, "password not saved", r.id)
        /\ UNCHANGED faults
     \/ /\ r.new # "" /\ r.pw # "" /\ Fails
        /\ Answers(b, "password not saved", r.id)
  /\ UNCHANGED <<users, cookie, ghosts>>

ChangePassword(b) ==
  LET r == req[b] IN
  /\ At(b, {"settings"}, "change")
  /\ \/ /\ users' = [users EXCEPT ![r.id].pw = r.new]
        /\ Answers(b, "saved", r.id)
        /\ knew' = Know(Browsers \ {b}, users')
        /\ UNCHANGED faults
     \/ /\ Fails
        /\ Answers(b, "password not saved", r.id)
        /\ UNCHANGED <<users, knew>>
  /\ UNCHANGED <<cookie, told, earned, alone>>

\* What is known of a field after an answer to b that it is now v; "" is none.
Known(b, before, v) ==
  IF v = "" THEN before ELSE IF b \in alone THEN {v} ELSE before \cup {v}

\* The page that comes back shows the name that was sent; unless it says that
\* this was not saved, the user takes it for stored, and so with the password.
ShowSettings(b) ==
  LET r == req[b] IN
  /\ At(b, {"settings"}, "done")
  /\ told' = [told EXCEPT ![r.id] = [pw    |-> Known(b, told[r.id].pw, r.new),
                                     shown |-> Known(b, told[r.id].shown, r.shown)]]
  /\ Ends(b)
  /\ UNCHANGED <<users, cookie, faults, earned>>

-----------------------------------------------------------------------------
\* What requests that change account id may have put there without an answer.
DoubtedPw(id)    == {req[b].new : b \in {c \in knew : Changes(c, id)}} \ {""}
DoubtedShown(id) == {req[b].shown : b \in {c \in Browsers : Changes(c, id)}} \ {""}

\* The server dies, its answers with it; the tokens outlive it.
Crash ==
  /\ Fails
  /\ req' = [b \in Browsers |-> Idle]
  /\ told' = [i \in Ids |-> [pw    |-> told[i].pw \cup DoubtedPw(i),
                             shown |-> told[i].shown \cup DoubtedShown(i)]]
  /\ knew' = {} /\ alone' = {}
  /\ UNCHANGED <<users, cookie, earned>>

Init ==
  /\ users = << >>
  /\ cookie = [b \in Browsers |-> NoToken]
  /\ req = [b \in Browsers |-> Idle]
  /\ faults = 0
  /\ told = << >>
  /\ earned = [b \in Browsers |-> {}]
  /\ knew = {} /\ alone = {}

Step(b) ==
  \/ SendRegister(b) \/ RefuseRegistration(b) \/ CreateUser(b)
  \/ SendLogin(b) \/ Login(b) \/ Enter(b) \/ Logout(b) \/ Expire(b)
  \/ SendSettings(b) \/ Redirect(b)
  \/ UpdateDisplayName(b) \/ CheckPassword(b) \/ ChangePassword(b)
  \/ ShowSettings(b)

Next == (\E b \in Browsers : Step(b)) \/ Crash

Spec == Init /\ [][Next]_vars

-----------------------------------------------------------------------------
(* What registration, login and the settings page must achieve *)

User  == [name : Names, pw : Passwords, shown : Names \cup Shown]
Token == [id : Nat, valid : {"yes", "no"}]

\* Rows, tokens and requests hold values of their types and name accounts that
\* exist, and a username has one row.
TypeOK ==
  /\ users \in Seq(User)
  /\ cookie \in [Browsers -> Token]
  /\ req \in [Browsers -> Request]
  /\ \A b \in Browsers : {cookie[b].id, req[b].id} \subseteq {0} \cup Ids
  /\ \A b \in Browsers : cookie[b].valid = "yes" => cookie[b].id # 0
  /\ \A b \in Browsers :
       req[b].kind = "settings" => req[b].id # 0 /\ req[b].name = users[req[b].id].name
  /\ \A i, j \in Ids : users[i].name = users[j].name => i = j
  /\ told \in Seq([pw : SUBSET Passwords, shown : SUBSET (Names \cup Shown)])
  /\ Len(told) = Len(users)
  /\ earned \in [Browsers -> SUBSET Ids]
  /\ knew \subseteq Browsers /\ alone \subseteq Browsers
  /\ faults \in Nat

\* A browser is let into an account only whose password it has given while it
\* was the account's: two people who register one name at the same time do not
\* end up in one account, and a login that runs beside a change of the password
\* is decided by a password that was right at the time.
EntryEarned == \A b \in Browsers : cookie[b].id \in {0} \cup earned[b]

\* What is stored is what the account's users were last told, or what a request
\* whose answer is under way or lost has put there; a password only if that
\* request gave one that was the account's at some time after it was sent, not
\* necessarily the one that it replaces.  The settings page saves the name,
\* checks the password and saves the new one in separate statements, beside
\* other sessions of the account, and may fail after each.
UserInformed ==
  \A i \in Ids : /\ users[i].pw \in told[i].pw \cup DoubtedPw(i)
                 /\ users[i].shown \in told[i].shown \cup DoubtedShown(i)

\* A stored password is replaced only by a request that has given that very
\* password, unless another request for the account ran beside it: the UPDATE
\* does not check again, so of two changes the later one stands, though its
\* password was right only before the other.
ReplacedKnowingly ==
  [][\A i \in Ids : users'[i].pw # users[i].pw =>
       \E b \in Browsers : /\ Changes(b, i) /\ At(b, {"settings"}, "change")
                           /\ b \in alone => req[b].pw = users[i].pw]_vars

-----------------------------------------------------------------------------
(* The inductive invariant behind all three *)

\* A request with the right password is known to have it.
RightIsKnown == \A b \in Browsers : Right(req[b], users) => b \in knew

\* A registration that has come to the table is filled in.
FormsFilled ==
  \A b \in Browsers :
    At(b, {"register"}, "create") => req[b].name # "" /\ req[b].pw # ""

\* Who is about to be let in has given the password of that very account.
EntriesRight ==
  \A b \in Browsers :
    (At(b, {"register", "login"}, "done") /\ req[b].answer = "entry") =>
      b \in knew /\ req[b].id \in Ids /\ users[req[b].id].name = req[b].name

\* Who changes the password has given one that was the account's in the meantime.
ChangersKnow ==
  \A b \in Browsers :
    /\ At(b, {"settings"}, "change") => b \in knew /\ req[b].new # ""
    /\ At(b, {"settings"}, "done") /\ req[b].new # "" => b \in knew

\* Nobody changes an account beside a request that is alone ...
AloneIsAlone ==
  \A b \in alone : /\ req[b].kind = "settings"
                   /\ \A c \in Browsers \ {b} : ~Changes(c, req[b].id)

\* ... so that the password it was checked against stands until it stores its
\* own, and what it has stored stands.
AloneStands ==
  \A b \in alone :
    /\ req[b].at = "change" => users[req[b].id].pw = req[b].pw
    /\ (req[b].at = "done" /\ req[b].new # "") => users[req[b].id].pw = req[b].new
    /\ (req[b].at # "name" /\ req[b].shown # "") =>
          users[req[b].id].shown = req[b].shown

\* A stored password was told of, or stands in a request that has stored it,
\* and so does a display name.
PwHeld(i) ==
  \/ users[i].pw \in told[i].pw
  \/ \E b \in knew : Changes(b, i) /\ req[b].at = "done" /\ req[b].new = users[i].pw

ShownHeld(i) ==
  \/ users[i].shown \in told[i].shown
  \/ \E b \in Browsers :
       Changes(b, i) /\ req[b].at # "name" /\ req[b].shown = users[i].shown

AccountsInv ==
  /\ TypeOK /\ EntryEarned
  /\ RightIsKnown /\ FormsFilled /\ EntriesRight /\ ChangersKnow
  /\ AloneIsAlone /\ AloneStands
  /\ \A i \in Ids : PwHeld(i) /\ ShownHeld(i)

=============================================================================

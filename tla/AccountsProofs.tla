--------------------------- MODULE AccountsProofs ---------------------------
(* Theorems about Accounts, for every value of its constants. *)
EXTENDS Accounts, SequenceTheorems, TLAPS

Info == [pw : SUBSET Passwords, shown : SUBSET (Names \cup Shown)]

-----------------------------------------------------------------------------
(* Lemmas about requests *)

\* What types say of rows and requests.
LEMMA TypeFacts ==
  ASSUME TypeOK
  PROVE  /\ Len(users) \in Nat /\ Ids = DOMAIN users /\ Ids = DOMAIN told
         /\ Ids \subseteq Nat \ {0}
         /\ users \in [Ids -> User] /\ told \in [Ids -> Info]
         /\ \A i \in Ids : users[i].pw # "" /\ users[i].shown # ""
         /\ \A b \in Browsers : /\ req[b] \in Request
                                /\ (req[b].kind = "settings" => req[b].id \in Ids)
<1>1. users \in Seq(User) /\ told \in Seq(Info) /\ Len(told) = Len(users)
  BY DEF TypeOK, Info
<1>2. /\ Len(users) \in Nat /\ DOMAIN users = 1 .. Len(users)
      /\ users \in [1 .. Len(users) -> User]
      /\ DOMAIN told = 1 .. Len(users) /\ told \in [1 .. Len(users) -> Info]
  BY <1>1, LenProperties
<1>3. \A i \in Ids : users[i].pw # "" /\ users[i].shown # ""
  BY <1>2, AccountsAssumption DEF Ids, User
<1>4. Ids = 1 .. Len(users) /\ Ids = DOMAIN users /\ Ids = DOMAIN told /\ Ids \subseteq Nat \ {0}
  BY <1>2 DEF Ids
<1>5. users \in [Ids -> User] /\ told \in [Ids -> Info]
  BY <1>2, <1>4
<1>6. \A b \in Browsers : req[b] \in Request
  BY DEF TypeOK
<1>7. \A b \in Browsers : req[b].kind = "settings" => req[b].id \in Ids
  <2> SUFFICES ASSUME NEW b \in Browsers, req[b].kind = "settings"
               PROVE  req[b].id \in Ids
    OBVIOUS
  <2>1. {cookie[b].id, req[b].id} \subseteq {0} \cup Ids /\ req[b].id # 0
    BY DEF TypeOK
  <2> QED
    BY <2>1
<1> QED
  BY <1>2, <1>3, <1>4, <1>5, <1>6, <1>7

\* An answer: nothing changes for the others, and the form is cleared of what
\* is not saved.
LEMMA AnswersFacts ==
  ASSUME req \in [Browsers -> Request], NEW b \in Browsers,
         NEW answer \in {"entry", "refused", "saved", "name not saved",
                         "password not saved"},
         NEW id \in Nat, Answers(b, answer, id)
  PROVE  /\ req' \in [Browsers -> Request]
         /\ \A c \in Browsers \ {b} : req'[c] = req[c]
         /\ req'[b].kind = req[b].kind /\ req'[b].at = "done"
         /\ req'[b].id = id /\ req'[b].name = req[b].name
         /\ req'[b].pw = "" /\ req'[b].answer = answer
         /\ req'[b].new = (IF answer = "saved" THEN req[b].new ELSE "")
         /\ req'[b].shown = (IF answer = "name not saved" THEN "" ELSE req[b].shown)
<1>1. req[b] \in Request
  OBVIOUS
<1> DEFINE new   == IF answer = "saved" THEN req[b].new ELSE ""
           shown == IF answer = "name not saved" THEN "" ELSE req[b].shown
           r == [req[b] EXCEPT !.at = "done", !.answer = answer, !.id = id, !.pw = "",
                               !.new = new, !.shown = shown]
<1>a. new \in Passwords \cup {""} /\ shown \in Shown \cup {""}
  BY <1>1 DEF Request
<1>4. req' = [req EXCEPT ![b] = r]
  BY DEF Answers
<1> HIDE DEF new, shown
<1>2. /\ r.kind = req[b].kind /\ r.at = "done" /\ r.id = id /\ r.name = req[b].name
      /\ r.pw = "" /\ r.answer = answer
      /\ r.new = new /\ r.shown = shown
  BY <1>1 DEF Request
<1>3. r \in Request
  BY ZenonT(40), <1>1, <1>a DEF Request
<1> HIDE DEF r
<1>5. req'[b] = r
  BY <1>4
<1>6. \A c \in Browsers \ {b} : req'[c] = req[c]
  BY <1>4
<1>7. req' \in [Browsers -> Request]
  BY <1>3, <1>4
<1> QED
  BY <1>2, <1>5, <1>6, <1>7 DEF new, shown

\* A handler that goes on.
LEMMA GoesFacts ==
  ASSUME req \in [Browsers -> Request], NEW b \in Browsers,
         NEW place \in {"check", "change"}, Goes(b, place)
  PROVE  /\ req' \in [Browsers -> Request]
         /\ \A c \in Browsers \ {b} : req'[c] = req[c]
         /\ req'[b].kind = req[b].kind /\ req'[b].at = place
         /\ req'[b].id = req[b].id /\ req'[b].name = req[b].name
         /\ req'[b].pw = req[b].pw /\ req'[b].answer = req[b].answer
         /\ req'[b].new = req[b].new /\ req'[b].shown = req[b].shown
<1>1. req[b] \in Request
  OBVIOUS
<1>2. [req[b] EXCEPT !.at = place] \in Request
  BY <1>1 DEF Request
<1> QED
  BY <1>1, <1>2 DEF Goes, Request

\* Idle is a request that asks for nothing.
LEMMA IdleFacts ==
  /\ Idle \in Request
  /\ Idle.kind = "idle" /\ Idle.at = "done" /\ Idle.id = 0 /\ Idle.name = ""
  /\ Idle.pw = "" /\ Idle.new = "" /\ Idle.shown = "" /\ Idle.answer = ""
BY DEF Idle, Request

\* An answer that has arrived.
LEMMA EndsFacts ==
  ASSUME req \in [Browsers -> Request], NEW b \in Browsers, Ends(b)
  PROVE  /\ req' \in [Browsers -> Request]
         /\ \A c \in Browsers \ {b} : req'[c] = req[c]
         /\ req'[b] = Idle
         /\ knew' = knew \ {b} /\ alone' = alone \ {b}
BY IdleFacts DEF Ends

\* No request without a password has the right one.
LEMMA BlankIsWrong ==
  ASSUME NEW us, \A i \in DOMAIN us : us[i].pw # "", NEW r, r.pw = ""
  PROVE  ~Right(r, us)
BY DEF Right

\* Having the right password is a matter of names, ids and passwords.
LEMMA RightDepends ==
  ASSUME NEW us, NEW vs, NEW r, NEW s, Right(s, vs), DOMAIN us = DOMAIN vs,
         \A i \in DOMAIN us : us[i].name = vs[i].name /\ us[i].pw = vs[i].pw,
         r.kind = s.kind, r.id = s.id, r.name = s.name, r.pw = s.pw
  PROVE  Right(r, us)
BY DEF Right

-----------------------------------------------------------------------------
(* Steps of a handler that leave the table alone *)

\* Types, when the table stays as it is.
LEMMA RequestTyped ==
  ASSUME TypeOK, UNCHANGED users, NEW b \in Browsers,
         req' \in [Browsers -> Request], \A c \in Browsers \ {b} : req'[c] = req[c],
         req'[b].id \in {0} \cup Ids,
         req'[b].kind = "settings" =>
           req'[b].id # 0 /\ req'[b].name = users[req'[b].id].name,
         cookie' \in [Browsers -> Token],
         \A c \in Browsers : /\ cookie'[c].id \in {0} \cup Ids
                             /\ cookie'[c].valid = "yes" => cookie'[c].id # 0,
         told' \in Seq(Info), Len(told') = Len(told),
         earned' \in [Browsers -> SUBSET Ids],
         knew' \subseteq Browsers, alone' \subseteq Browsers, faults' \in Nat
  PROVE  TypeOK'
<1>1. Ids' = Ids
  BY DEF Ids
<1>2. \A c \in Browsers : {cookie'[c].id, req'[c].id} \subseteq {0} \cup Ids
  <2> SUFFICES ASSUME NEW c \in Browsers
               PROVE  cookie'[c].id \in {0} \cup Ids /\ req'[c].id \in {0} \cup Ids
    OBVIOUS
  <2> QED
    BY DEF TypeOK
<1>3. \A c \in Browsers : req'[c].kind = "settings" =>
        req'[c].id # 0 /\ req'[c].name = users[req'[c].id].name
  BY DEF TypeOK
<1> QED
  BY <1>1, <1>2, <1>3 DEF TypeOK, Info

\* Who changes which account does not change, and so who is alone does not.
LEMMA AloneStays ==
  ASSUME AloneIsAlone, alone \subseteq Browsers, UNCHANGED alone,
         \A c \in Browsers : /\ req'[c].kind = req[c].kind
                             /\ req[c].kind = "settings" => req'[c].id = req[c].id
  PROVE  AloneIsAlone'
<1>1. \A a \in alone :
        /\ req'[a].kind = "settings"
        /\ \A c \in Browsers \ {a} :
             ~(req'[c].kind = "settings" /\ req'[c].id = req'[a].id)
  <2> SUFFICES ASSUME NEW a \in alone
               PROVE  /\ req'[a].kind = "settings"
                      /\ \A c \in Browsers \ {a} :
                           ~(req'[c].kind = "settings" /\ req'[c].id = req'[a].id)
    OBVIOUS
  <2>1. a \in Browsers /\ req[a].kind = "settings"
    BY DEF AloneIsAlone
  <2>2. \A c \in Browsers \ {a} : ~(req[c].kind = "settings" /\ req[c].id = req[a].id)
    BY DEF AloneIsAlone, Changes
  <2> QED
    BY <2>1, <2>2
<1> QED
  BY <1>1 DEF AloneIsAlone, Changes

\* An answer that arrives leaves nobody less alone.
LEMMA EndStays ==
  ASSUME AloneIsAlone, alone \subseteq Browsers, NEW b \in Browsers, alone' = alone \ {b},
         req'[b].kind = "idle", \A c \in Browsers \ {b} : req'[c] = req[c]
  PROVE  AloneIsAlone'
<1>1. \A a \in alone' :
        /\ req'[a].kind = "settings"
        /\ \A c \in Browsers \ {a} :
             ~(req'[c].kind = "settings" /\ req'[c].id = req'[a].id)
  <2> SUFFICES ASSUME NEW a \in alone \ {b}
               PROVE  /\ req'[a].kind = "settings"
                      /\ \A c \in Browsers \ {a} :
                           ~(req'[c].kind = "settings" /\ req'[c].id = req'[a].id)
    OBVIOUS
  <2>1. a \in Browsers /\ req'[a] = req[a] /\ req[a].kind = "settings"
    BY DEF AloneIsAlone
  <2>2. \A c \in Browsers \ {a} : ~(req[c].kind = "settings" /\ req[c].id = req[a].id)
    BY DEF AloneIsAlone, Changes
  <2> QED
    BY <2>1, <2>2
<1> QED
  BY <1>1 DEF AloneIsAlone, Changes

\* A handler that ends without having changed the table.
LEMMA AnswerStep ==
  ASSUME AccountsInv, NEW b \in Browsers,
         NEW answer \in {"entry", "refused", "saved", "name not saved",
                         "password not saved"},
         NEW id \in Nat, id \in {0} \cup Ids, Answers(b, answer, id),
         req[b].at # "done",
         req[b].kind = "settings" =>
           id = req[b].id /\ (answer = "name not saved" <=> req[b].at = "name"),
         answer = "entry" => b \in knew /\ id \in Ids /\ users[id].name = req[b].name,
         answer = "saved" => req[b].new = "",
         UNCHANGED <<users, cookie, told, earned, knew, alone>>, faults' \in Nat
  PROVE  AccountsInv'
<1>t. TypeOK /\ Ids' = Ids
  BY DEF AccountsInv, Ids
<1>n. req \in [Browsers -> Request]
  BY <1>t DEF TypeOK
<1>r. /\ req' \in [Browsers -> Request]
      /\ \A c \in Browsers \ {b} : req'[c] = req[c]
      /\ req'[b].kind = req[b].kind /\ req'[b].at = "done"
      /\ req'[b].id = id /\ req'[b].name = req[b].name
      /\ req'[b].pw = "" /\ req'[b].answer = answer /\ req'[b].new = ""
      /\ req'[b].shown = (IF answer = "name not saved" THEN "" ELSE req[b].shown)
  <2>1. req'[b].new = (IF answer = "saved" THEN req[b].new ELSE "")
    BY <1>n, AnswersFacts
  <2> QED
    BY <2>1, <1>n, AnswersFacts
<1>1. TypeOK'
  <2>1. req[b].kind = "settings" => id # 0 /\ req[b].name = users[id].name
    BY <1>t DEF TypeOK
  <2> QED
    BY ZenonT(40), <2>1, <1>t, <1>r, RequestTyped DEF TypeOK, Info
<1>2. EntryEarned'
  BY DEF AccountsInv, EntryEarned
<1>3. RightIsKnown'
  <2>1. ~Right(req'[b], users)
    BY <1>t, <1>r, TypeFacts, BlankIsWrong
  <2> QED
    BY <2>1, <1>r DEF AccountsInv, RightIsKnown
<1>g. FormsFilled'
  BY <1>t, <1>r DEF AccountsInv, FormsFilled, At
<1>4. EntriesRight'
  <2> SUFFICES ASSUME NEW c \in Browsers, req'[c].kind \in {"register", "login"},
                      req'[c].at = "done", req'[c].answer = "entry"
               PROVE  c \in knew /\ req'[c].id \in Ids /\ users[req'[c].id].name = req'[c].name
    BY <1>t DEF EntriesRight, At
  <2>1. CASE c = b
    BY <2>1, <1>r
  <2>2. CASE c # b
    BY <2>2, <1>r DEF AccountsInv, EntriesRight, At
  <2> QED
    BY <2>1, <2>2
<1>5. ChangersKnow'
  BY ZenonT(40), <1>r DEF AccountsInv, ChangersKnow, At
<1>6. AloneIsAlone'
  <2>1. \A c \in Browsers : req'[c].kind = req[c].kind
                           /\ (req[c].kind = "settings" => req'[c].id = req[c].id)
    BY <1>r
  <2> QED
    BY <2>1, <1>t, AloneStays DEF AccountsInv, TypeOK
<1>7. AloneStands'
  <2> SUFFICES ASSUME NEW a \in alone
               PROVE  /\ req'[a].at = "change" => users[req'[a].id].pw = req'[a].pw
                      /\ (req'[a].at = "done" /\ req'[a].new # "") => users[req'[a].id].pw = req'[a].new
                      /\ (req'[a].at # "name" /\ req'[a].shown # "") =>
                            users[req'[a].id].shown = req'[a].shown
    BY DEF AloneStands
  <2>1. a \in Browsers /\ req[a].kind = "settings"
    BY <1>t DEF AccountsInv, AloneIsAlone, TypeOK
  <2>2. CASE a = b
    BY <2>1, <2>2, <1>r DEF AccountsInv, AloneStands
  <2>3. CASE a # b
    BY <2>1, <2>3, <1>r DEF AccountsInv, AloneStands
  <2> QED
    BY <2>2, <2>3
<1>8. ASSUME NEW i \in Ids
      PROVE  PwHeld(i)' /\ ShownHeld(i)'
  <2>1. PwHeld(i) /\ ShownHeld(i) /\ users[i].pw # "" /\ users[i].shown # ""
    BY <1>8, <1>t, TypeFacts DEF AccountsInv
  <2>2. PwHeld(i)'
    BY ZenonT(40), <2>1, <1>r, <1>t DEF PwHeld, Changes, TypeOK
  <2>3. ShownHeld(i)'
    <3>1. CASE users[i].shown \in told[i].shown
      BY <3>1 DEF ShownHeld
    <3>2. CASE \E c \in Browsers :
                 Changes(c, i) /\ req[c].at # "name" /\ req[c].shown = users[i].shown
      <4>1. PICK c \in Browsers :
                   Changes(c, i) /\ req[c].at # "name" /\ req[c].shown = users[i].shown
        BY <3>2
      <4>2. CASE c # b
        BY <4>1, <4>2, <1>r DEF ShownHeld, Changes
      <4>3. CASE c = b /\ answer # "name not saved"
        BY <4>1, <4>3, <1>r DEF ShownHeld, Changes
      <4>4. CASE c = b /\ answer = "name not saved"
        BY <4>1, <4>4 DEF Changes
      <4> QED
        BY <4>2, <4>3, <4>4
    <3> QED
      BY <2>1, <3>1, <3>2 DEF ShownHeld
  <2> QED
    BY <2>2, <2>3
<1> QED
  BY <1>g, <1>t, <1>1, <1>2, <1>3, <1>4, <1>5, <1>6, <1>7, <1>8 DEF AccountsInv

\* A settings handler that goes on.
LEMMA GoesStep ==
  ASSUME AccountsInv, NEW b \in Browsers, NEW place \in {"check", "change"},
         Goes(b, place), req[b].kind = "settings", req[b].at # "done",
         req[b].at # "name" \/ req[b].shown = "",
         place = "change" => /\ b \in knew /\ req[b].new # ""
                             /\ users[req[b].id].pw = req[b].pw,
         UNCHANGED <<users, cookie, told, earned, knew, alone>>, faults' \in Nat
  PROVE  AccountsInv'
<1>t. TypeOK /\ Ids' = Ids /\ req \in [Browsers -> Request]
  BY DEF AccountsInv, Ids, TypeOK
<1>r. /\ req' \in [Browsers -> Request]
      /\ \A c \in Browsers \ {b} : req'[c] = req[c]
      /\ req'[b].kind = "settings" /\ req'[b].at = place
      /\ req'[b].id = req[b].id /\ req'[b].name = req[b].name
      /\ req'[b].pw = req[b].pw /\ req'[b].answer = req[b].answer
      /\ req'[b].new = req[b].new /\ req'[b].shown = req[b].shown
  BY <1>t, GoesFacts
<1>1. TypeOK'
  <2>1. /\ req[b].id \in Ids /\ req[b].id # 0
        /\ req[b].name = users[req[b].id].name
    BY <1>t, TypeFacts DEF TypeOK
  <2> QED
    BY ZenonT(40), <2>1, <1>t, <1>r, RequestTyped DEF TypeOK, Info
<1>2. EntryEarned'
  BY DEF AccountsInv, EntryEarned
<1>3. RightIsKnown'
  <2>1. Right(req'[b], users) => Right(req[b], users)
    BY <1>r, RightDepends
  <2> QED
    BY <2>1, <1>r DEF AccountsInv, RightIsKnown
<1>g. FormsFilled'
  BY <1>r DEF AccountsInv, FormsFilled, At
<1>4. EntriesRight'
  BY <1>t, <1>r DEF AccountsInv, EntriesRight, At
<1>5. ChangersKnow'
  BY <1>r DEF AccountsInv, ChangersKnow, At
<1>6. AloneIsAlone'
  BY <1>t, <1>r, AloneStays DEF AccountsInv, TypeOK
<1>7. AloneStands'
  <2> SUFFICES ASSUME NEW a \in alone
               PROVE  /\ req'[a].at = "change" => users[req'[a].id].pw = req'[a].pw
                      /\ (req'[a].at = "done" /\ req'[a].new # "") => users[req'[a].id].pw = req'[a].new
                      /\ (req'[a].at # "name" /\ req'[a].shown # "") =>
                            users[req'[a].id].shown = req'[a].shown
    BY DEF AloneStands
  <2>1. a \in Browsers
    BY <1>t DEF TypeOK
  <2>2. CASE a = b
    BY <2>1, <2>2, <1>r DEF AccountsInv, AloneStands
  <2>3. CASE a # b
    BY <2>1, <2>3, <1>r DEF AccountsInv, AloneStands
  <2> QED
    BY <2>2, <2>3
<1>8. ASSUME NEW i \in Ids
      PROVE  PwHeld(i)' /\ ShownHeld(i)'
  <2>1. PwHeld(i) /\ ShownHeld(i) /\ users[i].pw # "" /\ users[i].shown # ""
    BY <1>8, <1>t, TypeFacts DEF AccountsInv
  <2>2. PwHeld(i)'
    BY ZenonT(40), <2>1, <1>r, <1>t DEF PwHeld, Changes, TypeOK
  <2>3. ShownHeld(i)'
    BY ZenonT(40), <2>1, <1>r, <1>t DEF ShownHeld, Changes
  <2> QED
    BY <2>2, <2>3
<1> QED
  BY <1>g, <1>t, <1>1, <1>2, <1>3, <1>4, <1>5, <1>6, <1>7, <1>8 DEF AccountsInv

\* A cookie that is dropped, or is not valid any more.
LEMMA CookieStep ==
  ASSUME AccountsInv, NEW b \in Browsers,
         cookie' = [cookie EXCEPT ![b] = NoToken]
           \/ cookie' = [cookie EXCEPT ![b].valid = "no"],
         UNCHANGED <<users, req, faults, told, earned, knew, alone>>
  PROVE  AccountsInv'
<1>t. TypeOK /\ Ids' = Ids
  BY DEF AccountsInv, Ids
<1>c. /\ cookie' \in [Browsers -> Token]
      /\ \A c \in Browsers : /\ cookie'[c].id \in {0, cookie[c].id}
                             /\ cookie'[c].valid = "yes" => cookie'[c] = cookie[c]
  <2>1. cookie \in [Browsers -> Token]
    BY <1>t DEF TypeOK
  <2>2. CASE cookie' = [cookie EXCEPT ![b] = NoToken]
    BY <2>1, <2>2 DEF Token, NoToken
  <2>3. CASE cookie' = [cookie EXCEPT ![b].valid = "no"]
    <3>1. cookie[b] \in Token
      BY <2>1
    <3>2. /\ [cookie[b] EXCEPT !.valid = "no"] \in Token
          /\ [cookie[b] EXCEPT !.valid = "no"].id = cookie[b].id
          /\ [cookie[b] EXCEPT !.valid = "no"].valid = "no"
      BY <3>1 DEF Token
    <3> QED
      BY <2>1, <2>3, <3>1, <3>2
  <2> QED
    BY <2>2, <2>3
<1>1. TypeOK'
  <2>1. /\ req \in [Browsers -> Request] /\ req[b].id \in {0} \cup Ids
        /\ req[b].kind = "settings" => req[b].id # 0 /\ req[b].name = users[req[b].id].name
    BY <1>t DEF TypeOK
  <2>2. \A c \in Browsers : /\ cookie'[c].id \in {0} \cup Ids
                            /\ cookie'[c].valid = "yes" => cookie'[c].id # 0
    BY <1>t, <1>c DEF TypeOK
  <2> QED
    BY <2>1, <2>2, <1>t, <1>c, RequestTyped DEF TypeOK, Info
<1>2. EntryEarned'
  BY <1>c DEF AccountsInv, EntryEarned
<1>3. RightIsKnown' /\ FormsFilled' /\ EntriesRight' /\ ChangersKnow' /\ AloneIsAlone' /\ AloneStands'
  BY <1>t DEF AccountsInv, RightIsKnown, FormsFilled, EntriesRight, ChangersKnow, AloneIsAlone,
              AloneStands, At, Changes
<1>4. \A i \in Ids : PwHeld(i)' /\ ShownHeld(i)'
  BY DEF AccountsInv, PwHeld, ShownHeld, Changes
<1> QED
  BY <1>t, <1>1, <1>2, <1>3, <1>4 DEF AccountsInv

\* A new request.
LEMMA SendStep ==
  ASSUME AccountsInv, NEW b \in Browsers, NEW r \in Request, Sends(b, r),
         r.id \in {0} \cup Ids,
         r.kind = "settings" =>
           r.at = "name" /\ r.id # 0 /\ r.name = users[r.id].name,
         r.kind = "register" => r.name # "" /\ r.pw # "",
         r.at # "done", r.at # "change",
         alone' \subseteq alone \cup {b},
         \A a \in alone' \ {b} : ~(r.kind = "settings" /\ r.id = req[a].id),
         b \in alone' =>
           r.kind = "settings" /\ \A c \in Browsers \ {b} : ~Changes(c, r.id),
         UNCHANGED <<users, cookie, faults, told, earned>>
  PROVE  AccountsInv'
<1>t. TypeOK /\ Ids' = Ids /\ req \in [Browsers -> Request] /\ alone \subseteq Browsers
  BY DEF AccountsInv, Ids, TypeOK
<1>r. /\ req' \in [Browsers -> Request] /\ req'[b] = r /\ req[b].kind = "idle"
      /\ \A c \in Browsers \ {b} : req'[c] = req[c]
      /\ knew' = IF Right(r, users) THEN knew \cup {b} ELSE knew
  BY <1>t DEF Sends, InFlight
<1>k. knew \subseteq knew' /\ knew' \subseteq Browsers
  BY <1>t, <1>r DEF TypeOK
<1>1. TypeOK'
  <2>1. alone' \subseteq Browsers
    BY <1>t
  <2> QED
    BY <2>1, <1>t, <1>r, <1>k, RequestTyped DEF TypeOK, Info
<1>2. EntryEarned'
  BY DEF AccountsInv, EntryEarned
<1>3. RightIsKnown'
  <2>1. Right(req'[b], users) => b \in knew'
    BY <1>r
  <2> QED
    BY <2>1, <1>r, <1>k DEF AccountsInv, RightIsKnown
<1>g. FormsFilled'
  BY <1>r DEF AccountsInv, FormsFilled, At
<1>4. EntriesRight'
  BY ZenonT(40), <1>t, <1>r, <1>k DEF AccountsInv, EntriesRight, At
<1>5. ChangersKnow'
  BY <1>r, <1>k DEF AccountsInv, ChangersKnow, At
<1>6. AloneIsAlone'
  <2>1. \A a \in alone' :
          /\ req'[a].kind = "settings"
          /\ \A c \in Browsers \ {a} :
               ~(req'[c].kind = "settings" /\ req'[c].id = req'[a].id)
    <3> SUFFICES ASSUME NEW a \in alone'
                 PROVE  /\ req'[a].kind = "settings"
                        /\ \A c \in Browsers \ {a} :
                             ~(req'[c].kind = "settings" /\ req'[c].id = req'[a].id)
      OBVIOUS
    <3>1. CASE a = b
      BY <3>1, <1>r DEF Changes
    <3>2. CASE a # b
      <4>1. a \in Browsers /\ a \in alone /\ req'[a] = req[a]
        BY <3>2, <1>t, <1>r
      <4>2. /\ req[a].kind = "settings"
            /\ \A c \in Browsers \ {a} :
                 ~(req[c].kind = "settings" /\ req[c].id = req[a].id)
        BY <4>1 DEF AccountsInv, AloneIsAlone, Changes
      <4>3. ~(req'[b].kind = "settings" /\ req'[b].id = req[a].id)
        BY <3>2, <1>r
      <4> QED
        BY <4>1, <4>2, <4>3, <1>r
    <3> QED
      BY <3>1, <3>2
  <2> QED
    BY <2>1 DEF AloneIsAlone, Changes
<1>7. AloneStands'
  <2> SUFFICES ASSUME NEW a \in alone'
               PROVE  /\ req'[a].at = "change" => users[req'[a].id].pw = req'[a].pw
                      /\ (req'[a].at = "done" /\ req'[a].new # "") => users[req'[a].id].pw = req'[a].new
                      /\ (req'[a].at # "name" /\ req'[a].shown # "") =>
                            users[req'[a].id].shown = req'[a].shown
    BY DEF AloneStands
  <2>1. CASE a = b
    BY <2>1, <1>r
  <2>2. CASE a # b
    BY ZenonT(40), <2>2, <1>t, <1>r DEF AccountsInv, AloneStands
  <2> QED
    BY <2>1, <2>2
<1>8. ASSUME NEW i \in Ids
      PROVE  PwHeld(i)' /\ ShownHeld(i)'
  <2>1. PwHeld(i) /\ ShownHeld(i)
    BY <1>8 DEF AccountsInv
  <2>2. PwHeld(i)'
    <3>1. users' = users /\ told' = told
      BY <1>t
    <3>2. CASE users[i].pw \in told[i].pw
      BY <3>1, <3>2 DEF PwHeld
    <3>3. CASE users[i].pw \notin told[i].pw
      <4>1. PICK c \in knew : Changes(c, i) /\ req[c].at = "done" /\ req[c].new = users[i].pw
        BY <2>1, <3>3 DEF PwHeld
      <4>2. c \in Browsers \ {b}
        BY <4>1, <1>r, <1>k DEF Changes
      <4>3. req'[c] = req[c] /\ c \in knew'
        BY <4>1, <4>2, <1>r, <1>k
      <4> QED
        BY <3>1, <4>1, <4>3 DEF PwHeld, Changes
    <3> QED
      BY <3>2, <3>3
  <2>3. ShownHeld(i)'
    BY <2>1, <1>r, <1>t DEF ShownHeld, Changes
  <2> QED
    BY <2>2, <2>3
<1> QED
  BY <1>g, <1>t, <1>1, <1>2, <1>3, <1>4, <1>5, <1>6, <1>7, <1>8 DEF AccountsInv

-----------------------------------------------------------------------------
(* Steps that change the table, or what is known of it *)

\* A row of the table replaced by one of the same name.
LEMMA RowFacts ==
  ASSUME TypeOK, NEW i \in Ids, NEW row \in User, row.name = users[i].name,
         users' = [users EXCEPT ![i] = row]
  PROVE  /\ users' \in Seq(User) /\ Len(users') = Len(users) /\ Ids' = Ids
         /\ users'[i] = row /\ \A j \in Ids \ {i} : users'[j] = users[j]
         /\ \A j \in Ids : users'[j].name = users[j].name
<1>1. users \in Seq(User) /\ i \in 1 .. Len(users)
  BY DEF TypeOK, Ids
<1>2. users' \in Seq(User) /\ Len(users') = Len(users)
  BY <1>1, ExceptSeq
<1>3. users'[i] = row /\ \A j \in Ids \ {i} : users'[j] = users[j]
  BY <1>1, TypeFacts
<1> QED
  BY <1>2, <1>3 DEF Ids

\* Types, when a row changes but not its name.
LEMMA RowTyped ==
  ASSUME TypeOK, NEW n \in Ids, NEW row \in User, row.name = users[n].name,
         users' = [users EXCEPT ![n] = row],
         req' \in [Browsers -> Request],
         \A c \in Browsers : /\ req'[c].kind = req[c].kind /\ req'[c].id = req[c].id
                             /\ req'[c].name = req[c].name,
         UNCHANGED <<cookie, told, earned, alone>>,
         knew' \subseteq Browsers, faults' \in Nat
  PROVE  TypeOK'
<1>u. /\ users' \in Seq(User) /\ Len(users') = Len(users) /\ Ids' = Ids
      /\ \A j \in Ids : users'[j].name = users[j].name
  BY RowFacts
<1>1. \A c \in Browsers : {cookie'[c].id, req'[c].id} \subseteq {0} \cup Ids'
  <2> SUFFICES ASSUME NEW c \in Browsers
               PROVE  cookie'[c].id \in {0} \cup Ids /\ req'[c].id \in {0} \cup Ids
    BY <1>u
  <2>1. {cookie[c].id, req[c].id} \subseteq {0} \cup Ids
    BY DEF TypeOK
  <2> QED
    BY <2>1
<1>2. \A c \in Browsers : req'[c].kind = "settings" =>
        req'[c].id # 0 /\ req'[c].name = users'[req'[c].id].name
  <2> SUFFICES ASSUME NEW c \in Browsers, req'[c].kind = "settings"
               PROVE  req'[c].id # 0 /\ req'[c].name = users'[req'[c].id].name
    OBVIOUS
  <2>1. /\ req[c].kind = "settings" /\ req'[c].id = req[c].id /\ req'[c].name = req[c].name
    OBVIOUS
  <2>2. req[c].id \in Ids /\ req[c].id # 0 /\ req[c].name = users[req[c].id].name
    BY <2>1, TypeFacts DEF TypeOK
  <2> QED
    BY <2>1, <2>2, <1>u
<1>3. \A i, j \in Ids' : users'[i].name = users'[j].name => i = j
  <2> SUFFICES ASSUME NEW i \in Ids, NEW j \in Ids, users'[i].name = users'[j].name
               PROVE  i = j
    BY <1>u
  <2>1. users[i].name = users[j].name
    BY <1>u
  <2> QED
    BY <2>1 DEF TypeOK
<1> QED
  BY <1>1, <1>2, <1>3, <1>u DEF TypeOK

\* The display name is stored.
LEMMA DisplayNameStep ==
  ASSUME AccountsInv, NEW b \in Browsers, At(b, {"settings"}, "name"),
         req[b].shown # "", Goes(b, "check"),
         users' = [users EXCEPT ![req[b].id].shown = req[b].shown],
         UNCHANGED <<cookie, faults, told, earned, knew, alone>>
  PROVE  AccountsInv'
<1> DEFINE n == req[b].id
           row == [users[n] EXCEPT !.shown = req[b].shown]
<1>t. TypeOK /\ req \in [Browsers -> Request] /\ n \in Ids /\ alone \subseteq Browsers
      /\ req[b].kind = "settings" /\ req[b].at = "name" /\ req[b].id # 0
  BY TypeFacts DEF AccountsInv, TypeOK, At
<1>w. /\ row \in User /\ row.name = users[n].name /\ row.pw = users[n].pw
      /\ row.shown = req[b].shown /\ users' = [users EXCEPT ![n] = row]
  <2>1. users[n] \in User /\ req[b].shown \in Shown
    BY <1>t, TypeFacts DEF Request
  <2> QED
    BY <2>1 DEF User
<1>u. /\ users' \in Seq(User) /\ Len(users') = Len(users) /\ Ids' = Ids
      /\ \A j \in Ids : users'[j].name = users[j].name /\ users'[j].pw = users[j].pw
      /\ users'[n].shown = req[b].shown
      /\ \A j \in Ids \ {n} : users'[j].shown = users[j].shown
  <2> HIDE DEF row, n
  <2>1. /\ users' \in Seq(User) /\ Len(users') = Len(users) /\ Ids' = Ids
        /\ users'[n] = row /\ \A j \in Ids \ {n} : users'[j] = users[j]
    BY <1>t, <1>w, RowFacts
  <2>2. \A j \in Ids : users'[j].name = users[j].name /\ users'[j].pw = users[j].pw
    BY <2>1, <1>w
  <2> QED
    BY <2>1, <2>2, <1>w
<1>r. /\ req' \in [Browsers -> Request]
      /\ \A c \in Browsers \ {b} : req'[c] = req[c]
      /\ req'[b].kind = "settings" /\ req'[b].at = "check"
      /\ req'[b].id = n /\ req'[b].name = req[b].name
      /\ req'[b].pw = req[b].pw /\ req'[b].answer = req[b].answer
      /\ req'[b].new = req[b].new /\ req'[b].shown = req[b].shown
  BY <1>t, GoesFacts
<1> HIDE DEF row, n
<1>1. TypeOK'
  <2>1. \A c \in Browsers : /\ req'[c].kind = req[c].kind /\ req'[c].id = req[c].id
                            /\ req'[c].name = req[c].name
    BY <1>t, <1>r DEF n
  <2> QED
    BY <2>1, <1>t, <1>w, <1>r, RowTyped DEF TypeOK
<1>2. EntryEarned'
  BY DEF AccountsInv, EntryEarned
<1>3. RightIsKnown'
  <2>1. /\ DOMAIN users = Ids /\ DOMAIN users' = Ids
    BY <1>t, <1>u, TypeFacts, LenProperties DEF Ids
  <2>2. ASSUME NEW c \in Browsers, Right(req'[c], users')
        PROVE  Right(req[c], users)
    <3>1. /\ req'[c].kind = req[c].kind /\ req'[c].id = req[c].id
          /\ req'[c].name = req[c].name /\ req'[c].pw = req[c].pw
      BY <1>t, <1>r DEF n
    <3> QED
      BY <2>1, <2>2, <3>1, <1>u, RightDepends
  <2> QED
    BY <2>2 DEF AccountsInv, RightIsKnown
<1>g. FormsFilled'
  BY <1>r DEF AccountsInv, FormsFilled, At
<1>4. EntriesRight'
  <2> SUFFICES ASSUME NEW c \in Browsers, req'[c].kind \in {"register", "login"},
                      req'[c].at = "done", req'[c].answer = "entry"
               PROVE  c \in knew /\ req'[c].id \in Ids /\ users'[req'[c].id].name = req'[c].name
    BY <1>u DEF EntriesRight, At
  <2>1. c # b /\ req'[c] = req[c]
    BY <1>r
  <2>2. c \in knew /\ req[c].id \in Ids /\ users[req[c].id].name = req[c].name
    BY <2>1 DEF AccountsInv, EntriesRight, At
  <2> QED
    BY <2>1, <2>2, <1>u
<1>5. ChangersKnow'
  BY <1>r DEF AccountsInv, ChangersKnow, At
<1>6. AloneIsAlone'
  BY <1>t, <1>r, AloneStays DEF AccountsInv, n
<1>7. AloneStands'
  <2> SUFFICES ASSUME NEW a \in alone
               PROVE  /\ req'[a].at = "change" => users'[req'[a].id].pw = req'[a].pw
                      /\ (req'[a].at = "done" /\ req'[a].new # "") => users'[req'[a].id].pw = req'[a].new
                      /\ (req'[a].at # "name" /\ req'[a].shown # "") =>
                            users'[req'[a].id].shown = req'[a].shown
    BY DEF AloneStands
  <2>1. CASE a = b
    BY <2>1, <1>r, <1>u
  <2>2. CASE a # b
    <3>1. /\ a \in Browsers /\ req'[a] = req[a] /\ req[a].id # n /\ req[a].id \in Ids
      BY <2>2, <1>t, <1>r, TypeFacts DEF AccountsInv, AloneIsAlone, Changes, n
    <3>2. /\ req[a].at = "change" => users[req[a].id].pw = req[a].pw
          /\ (req[a].at = "done" /\ req[a].new # "") => users[req[a].id].pw = req[a].new
          /\ (req[a].at # "name" /\ req[a].shown # "") => users[req[a].id].shown = req[a].shown
      BY DEF AccountsInv, AloneStands
    <3>3. /\ users'[req[a].id].pw = users[req[a].id].pw
          /\ users'[req[a].id].shown = users[req[a].id].shown
      BY <3>1, <1>u
    <3> QED
      BY <3>1, <3>2, <3>3
  <2> QED
    BY <2>1, <2>2
<1>8. ASSUME NEW i \in Ids
      PROVE  PwHeld(i)' /\ ShownHeld(i)'
  <2>1. PwHeld(i) /\ ShownHeld(i)
    BY <1>8 DEF AccountsInv
  <2>2. PwHeld(i)'
    <3>1. users'[i].pw = users[i].pw /\ knew \subseteq Browsers
      BY <1>8, <1>t, <1>u DEF TypeOK
    <3>2. CASE users[i].pw \in told[i].pw
      BY <3>1, <3>2 DEF PwHeld
    <3>3. CASE \E c \in knew :
                 Changes(c, i) /\ req[c].at = "done" /\ req[c].new = users[i].pw
      BY <3>1, <3>3, <1>r, <1>t DEF PwHeld, Changes
    <3> QED
      BY <2>1, <3>2, <3>3 DEF PwHeld
  <2>3. ShownHeld(i)'
    <3>1. CASE i = n
      BY <3>1, <1>r, <1>u DEF ShownHeld, Changes
    <3>2. CASE i # n
      BY ZenonT(40), <3>2, <2>1, <1>8, <1>r, <1>u, <1>t DEF ShownHeld, Changes, n
    <3> QED
      BY <3>1, <3>2
  <2> QED
    BY <2>2, <2>3
<1> QED
  BY <1>g, <1>u, <1>1, <1>2, <1>3, <1>4, <1>5, <1>6, <1>7, <1>8 DEF AccountsInv

\* The new password is stored.
LEMMA PasswordStep ==
  ASSUME AccountsInv, NEW b \in Browsers, At(b, {"settings"}, "change"),
         users' = [users EXCEPT ![req[b].id].pw = req[b].new],
         Answers(b, "saved", req[b].id), knew' = Know(Browsers \ {b}, users'),
         UNCHANGED <<cookie, faults, told, earned, alone>>
  PROVE  AccountsInv'
<1> DEFINE n == req[b].id
           row == [users[n] EXCEPT !.pw = req[b].new]
<1>t. /\ TypeOK /\ req \in [Browsers -> Request] /\ n \in Ids /\ n \in Nat
      /\ alone \subseteq Browsers /\ knew \subseteq Browsers
      /\ req[b].kind = "settings" /\ req[b].at = "change" /\ req[b].id # 0
      /\ b \in knew /\ req[b].new # ""
  <2>1. TypeOK /\ req[b].kind = "settings" /\ req[b].at = "change"
    BY DEF AccountsInv, At
  <2>2. b \in knew /\ req[b].new # ""
    BY DEF AccountsInv, ChangersKnow
  <2> QED
    BY <2>1, <2>2, TypeFacts DEF TypeOK
<1>w. /\ row \in User /\ row.name = users[n].name /\ row.pw = req[b].new
      /\ row.shown = users[n].shown /\ users' = [users EXCEPT ![n] = row]
  <2>1. users[n] \in User /\ req[b].new \in Passwords
    BY <1>t, TypeFacts DEF Request
  <2> QED
    BY <2>1 DEF User
<1>r. /\ req' \in [Browsers -> Request]
      /\ \A c \in Browsers \ {b} : req'[c] = req[c]
      /\ req'[b].kind = "settings" /\ req'[b].at = "done"
      /\ req'[b].id = n /\ req'[b].name = req[b].name
      /\ req'[b].pw = "" /\ req'[b].answer = "saved"
      /\ req'[b].new = req[b].new /\ req'[b].shown = req[b].shown
  BY <1>t, AnswersFacts
<1> HIDE DEF row, n
<1>u. /\ users' \in Seq(User) /\ Len(users') = Len(users) /\ Ids' = Ids
      /\ \A j \in Ids : users'[j].name = users[j].name /\ users'[j].shown = users[j].shown
      /\ users'[n].pw = req[b].new
      /\ \A j \in Ids \ {n} : users'[j].pw = users[j].pw
  <2>1. /\ users' \in Seq(User) /\ Len(users') = Len(users) /\ Ids' = Ids
        /\ users'[n] = row /\ \A j \in Ids \ {n} : users'[j] = users[j]
    BY <1>t, <1>w, RowFacts
  <2>2. \A j \in Ids : users'[j].name = users[j].name /\ users'[j].shown = users[j].shown
    BY <2>1, <1>w
  <2> QED
    BY <2>1, <2>2, <1>w
<1>k. /\ knew \subseteq knew' /\ knew' \subseteq Browsers
      /\ \A c \in Browsers \ {b} : Right(req[c], users') => c \in knew'
  BY <1>t DEF Know
<1>1. TypeOK'
  <2>1. \A c \in Browsers : /\ req'[c].kind = req[c].kind /\ req'[c].id = req[c].id
                            /\ req'[c].name = req[c].name
    BY <1>t, <1>r DEF n
  <2> QED
    BY <2>1, <1>t, <1>w, <1>r, <1>k, RowTyped DEF TypeOK
<1>2. EntryEarned'
  BY DEF AccountsInv, EntryEarned
<1>3. RightIsKnown'
  <2>1. DOMAIN users' = Ids
    BY <1>u, LenProperties DEF Ids
  <2>2. \A j \in Ids : users[j].pw # ""
    BY <1>t, TypeFacts
  <2>3. \A j \in DOMAIN users' : users'[j].pw # ""
    <3>1. users'[n].pw # ""
      BY <1>t, <1>u
    <3>2. \A j \in Ids \ {n} : users'[j].pw # ""
      BY <2>2, <1>u
    <3> QED
      BY <2>1, <3>1, <3>2
  <2>4. ~Right(req'[b], users')
    BY <2>3, <1>r, BlankIsWrong
  <2> QED
    BY <2>4, <1>r, <1>k DEF RightIsKnown
<1>g. FormsFilled'
  BY <1>r DEF AccountsInv, FormsFilled, At
<1>4. EntriesRight'
  <2> SUFFICES ASSUME NEW c \in Browsers, req'[c].kind \in {"register", "login"},
                      req'[c].at = "done", req'[c].answer = "entry"
               PROVE  c \in knew' /\ req'[c].id \in Ids /\ users'[req'[c].id].name = req'[c].name
    BY <1>u DEF EntriesRight, At
  <2>1. c # b /\ req'[c] = req[c]
    BY <1>r
  <2>2. c \in knew /\ req[c].id \in Ids /\ users[req[c].id].name = req[c].name
    BY <2>1 DEF AccountsInv, EntriesRight, At
  <2> QED
    BY <2>1, <2>2, <1>u, <1>k
<1>5. ChangersKnow'
  BY <1>t, <1>r, <1>k DEF AccountsInv, ChangersKnow, At
<1>6. AloneIsAlone'
  BY <1>t, <1>r, AloneStays DEF AccountsInv, n
<1>7. AloneStands'
  <2> SUFFICES ASSUME NEW a \in alone
               PROVE  /\ req'[a].at = "change" => users'[req'[a].id].pw = req'[a].pw
                      /\ (req'[a].at = "done" /\ req'[a].new # "") => users'[req'[a].id].pw = req'[a].new
                      /\ (req'[a].at # "name" /\ req'[a].shown # "") =>
                            users'[req'[a].id].shown = req'[a].shown
    BY DEF AloneStands
  <2>0. /\ req[a].at = "change" => users[req[a].id].pw = req[a].pw
        /\ (req[a].at = "done" /\ req[a].new # "") => users[req[a].id].pw = req[a].new
        /\ (req[a].at # "name" /\ req[a].shown # "") => users[req[a].id].shown = req[a].shown
    BY DEF AccountsInv, AloneStands
  <2>1. CASE a = b
    BY <2>0, <2>1, <1>t, <1>r, <1>u DEF n
  <2>2. CASE a # b
    <3>1. /\ a \in Browsers /\ req'[a] = req[a] /\ req[a].id # n /\ req[a].id \in Ids
      BY <2>2, <1>t, <1>r, TypeFacts DEF AccountsInv, AloneIsAlone, Changes, n
    <3>2. /\ users'[req[a].id].pw = users[req[a].id].pw
          /\ users'[req[a].id].shown = users[req[a].id].shown
      BY <3>1, <1>u
    <3> QED
      BY <2>0, <3>1, <3>2
  <2> QED
    BY <2>1, <2>2
<1>8. ASSUME NEW i \in Ids
      PROVE  PwHeld(i)' /\ ShownHeld(i)'
  <2>1. PwHeld(i) /\ ShownHeld(i)
    BY <1>8 DEF AccountsInv
  <2>2. PwHeld(i)'
    <3>1. CASE i = n
      BY <3>1, <1>t, <1>r, <1>u, <1>k DEF PwHeld, Changes
    <3>2. CASE i # n
      <4>1. users'[i].pw = users[i].pw
        BY <3>2, <1>8, <1>u
      <4>2. CASE users[i].pw \in told[i].pw
        BY <4>1, <4>2 DEF PwHeld
      <4>3. CASE \E c \in knew :
                   Changes(c, i) /\ req[c].at = "done" /\ req[c].new = users[i].pw
        BY <3>2, <4>1, <4>3, <1>r, <1>t, <1>k DEF PwHeld, Changes, n
      <4> QED
        BY <2>1, <4>2, <4>3 DEF PwHeld
    <3> QED
      BY <3>1, <3>2
  <2>3. ShownHeld(i)'
    <3>1. users'[i].shown = users[i].shown
      BY <1>8, <1>u
    <3>2. \A c \in Browsers : Changes(c, i) /\ req[c].at # "name" =>
            /\ req'[c].kind = "settings" /\ req'[c].id = i /\ req'[c].at # "name"
            /\ req'[c].shown = req[c].shown
      BY <1>t, <1>r DEF Changes, n
    <3> QED
      BY <2>1, <3>1, <3>2 DEF ShownHeld, Changes
  <2> QED
    BY <2>2, <2>3
<1> QED
  BY <1>g, <1>u, <1>1, <1>2, <1>3, <1>4, <1>5, <1>6, <1>7, <1>8 DEF AccountsInv

\* What a longer sequence holds.
LEMMA AppendFacts ==
  ASSUME NEW S, NEW s \in Seq(S), NEW e \in S
  PROVE  /\ Append(s, e) \in Seq(S) /\ Len(Append(s, e)) = Len(s) + 1
         /\ Append(s, e)[Len(s) + 1] = e
         /\ \A j \in 1 .. Len(s) : Append(s, e)[j] = s[j]
BY AppendProperties

\* A row is made.
LEMMA CreateStep ==
  ASSUME AccountsInv, NEW b \in Browsers, At(b, {"register"}, "create"),
         ~Taken(req[b].name), NEW n \in Nat, n # 0, Ids' = Ids \cup {n}, n \notin Ids,
         users' \in Seq(User), \A j \in Ids : users'[j] = users[j],
         users'[n].name = req[b].name, users'[n].pw = req[b].pw,
         users'[n].shown = req[b].name,
         told' \in Seq(Info), Len(told') = Len(users'), \A j \in Ids : told'[j] = told[j],
         told'[n].pw = {req[b].pw}, told'[n].shown = {req[b].name},
         Answers(b, "entry", n), knew' = Know(Browsers, users'),
         UNCHANGED <<cookie, faults, earned, alone>>
  PROVE  AccountsInv'
<1>t. /\ TypeOK /\ req \in [Browsers -> Request]
      /\ alone \subseteq Browsers /\ knew \subseteq Browsers
      /\ req[b].kind = "register" /\ req[b].at = "create"
  <2>1. TypeOK /\ req[b].kind = "register" /\ req[b].at = "create"
    BY DEF AccountsInv, At
  <2> QED
    BY <2>1 DEF TypeOK
<1>r. /\ req' \in [Browsers -> Request]
      /\ \A c \in Browsers \ {b} : req'[c] = req[c]
      /\ req'[b].kind = "register" /\ req'[b].at = "done"
      /\ req'[b].id = n /\ req'[b].name = req[b].name
      /\ req'[b].pw = "" /\ req'[b].answer = "entry"
  BY <1>t, AnswersFacts
<1>d. DOMAIN users' = Ids \cup {n}
  BY LenProperties DEF Ids
<1>k. /\ knew \subseteq knew' /\ knew' \subseteq Browsers
      /\ \A c \in Browsers : Right(req[c], users') => c \in knew'
  BY <1>t DEF Know
<1>b. b \in knew'
  <2>1. Right(req[b], users')
    BY <1>d, <1>t DEF Right
  <2> QED
    BY <2>1, <1>k
<1>1. TypeOK'
  <2>1. \A c \in Browsers : {cookie'[c].id, req'[c].id} \subseteq {0} \cup Ids'
    <3> SUFFICES ASSUME NEW c \in Browsers
                 PROVE  cookie'[c].id \in {0} \cup Ids' /\ req'[c].id \in {0} \cup Ids'
      OBVIOUS
    <3>1. {cookie[c].id, req[c].id} \subseteq {0} \cup Ids
      BY <1>t DEF TypeOK
    <3> QED
      BY <3>1, <1>r
  <2>2. \A c \in Browsers : req'[c].kind = "settings" =>
          req'[c].id # 0 /\ req'[c].name = users'[req'[c].id].name
    <3> SUFFICES ASSUME NEW c \in Browsers, req'[c].kind = "settings"
                 PROVE  req'[c].id # 0 /\ req'[c].name = users'[req'[c].id].name
      OBVIOUS
    <3>1. c # b /\ req'[c] = req[c]
      BY <1>r
    <3>2. req[c].id \in Ids /\ req[c].id # 0 /\ req[c].name = users[req[c].id].name
      BY <3>1, <1>t, TypeFacts DEF TypeOK
    <3> QED
      BY <3>1, <3>2
  <2>3. \A i, j \in Ids' : users'[i].name = users'[j].name => i = j
    <3>1. \A i \in Ids : users'[i].name # users'[n].name
      BY DEF Taken
    <3>2. \A i, j \in Ids : users[i].name = users[j].name => i = j
      BY <1>t DEF TypeOK
    <3>3. \A i \in Ids : users'[i] = users[i]
      OBVIOUS
    <3>4. ASSUME NEW i \in Ids', NEW j \in Ids', users'[i].name = users'[j].name
          PROVE  i = j
      <4>1. CASE i \in Ids /\ j \in Ids
        BY <3>2, <3>3, <3>4, <4>1
      <4>2. CASE i = n \/ j = n
        BY <3>1, <3>4, <4>2
      <4> QED
        BY <4>1, <4>2
    <3> QED
      BY <3>4
  <2>4. earned' \in [Browsers -> SUBSET Ids']
    BY <1>t DEF TypeOK
  <2> QED
    BY <2>1, <2>2, <2>3, <2>4, <1>t, <1>r, <1>k DEF TypeOK, Info
<1>2. EntryEarned'
  BY DEF AccountsInv, EntryEarned
<1>3. RightIsKnown'
  BY <1>r, <1>k, <1>b DEF RightIsKnown
<1>g. FormsFilled'
  BY ZenonT(40), <1>r DEF AccountsInv, FormsFilled, At
<1>4. EntriesRight'
  <2> SUFFICES ASSUME NEW c \in Browsers, req'[c].kind \in {"register", "login"},
                      req'[c].at = "done", req'[c].answer = "entry"
               PROVE  c \in knew' /\ req'[c].id \in Ids' /\ users'[req'[c].id].name = req'[c].name
    BY DEF EntriesRight, At
  <2>1. CASE c = b
    BY <2>1, <1>b, <1>r
  <2>2. CASE c # b
    <3>1. req'[c] = req[c]
      BY <2>2, <1>r
    <3>2. c \in knew /\ req[c].id \in Ids /\ users[req[c].id].name = req[c].name
      BY <3>1 DEF AccountsInv, EntriesRight, At
    <3> QED
      BY <3>1, <3>2, <1>k
  <2> QED
    BY <2>1, <2>2
<1>5. ChangersKnow'
  <2> SUFFICES ASSUME NEW c \in Browsers, req'[c].kind = "settings"
               PROVE  /\ req'[c].at = "change" => c \in knew' /\ req'[c].new # ""
                      /\ (req'[c].at = "done" /\ req'[c].new # "") => c \in knew'
    BY DEF ChangersKnow, At
  <2>1. req'[c] = req[c]
    BY <1>r
  <2> QED
    BY <2>1, <1>k DEF AccountsInv, ChangersKnow, At
<1>6. AloneIsAlone'
  BY <1>t, <1>r, AloneStays DEF AccountsInv
<1>7. AloneStands'
  <2> SUFFICES ASSUME NEW a \in alone
               PROVE  /\ req'[a].at = "change" => users'[req'[a].id].pw = req'[a].pw
                      /\ (req'[a].at = "done" /\ req'[a].new # "") => users'[req'[a].id].pw = req'[a].new
                      /\ (req'[a].at # "name" /\ req'[a].shown # "") =>
                            users'[req'[a].id].shown = req'[a].shown
    BY DEF AloneStands
  <2>1. /\ a \in Browsers /\ req'[a] = req[a] /\ req[a].id \in Ids
    BY <1>t, <1>r, TypeFacts DEF AccountsInv, AloneIsAlone
  <2>2. /\ req[a].at = "change" => users[req[a].id].pw = req[a].pw
        /\ (req[a].at = "done" /\ req[a].new # "") => users[req[a].id].pw = req[a].new
        /\ (req[a].at # "name" /\ req[a].shown # "") => users[req[a].id].shown = req[a].shown
    BY DEF AccountsInv, AloneStands
  <2> QED
    BY <2>1, <2>2
<1>8. ASSUME NEW i \in Ids'
      PROVE  PwHeld(i)' /\ ShownHeld(i)'
  <2>1. CASE i = n
    BY <2>1 DEF PwHeld, ShownHeld
  <2>2. CASE i \in Ids
    <3>1. PwHeld(i) /\ ShownHeld(i) /\ users'[i] = users[i] /\ told'[i] = told[i]
      BY <2>2 DEF AccountsInv
    <3>2. PwHeld(i)'
      BY ZenonT(40), <3>1, <1>r, <1>t, <1>k DEF PwHeld, Changes
    <3>3. ShownHeld(i)'
      BY ZenonT(40), <3>1, <1>r, <1>t DEF ShownHeld, Changes
    <3> QED
      BY <3>2, <3>3
  <2> QED
    BY <2>1, <2>2, <1>8
<1> QED
  BY <1>g, <1>1, <1>2, <1>3, <1>4, <1>5, <1>6, <1>7, <1>8 DEF AccountsInv

\* The answer to a registration or a login arrives.
LEMMA EnterStep ==
  ASSUME AccountsInv, NEW b \in Browsers, Enter(b)
  PROVE  AccountsInv'
<1> DEFINE entered == At(b, {"register", "login"}, "done") /\ req[b].answer = "entry"
<1>t. /\ TypeOK /\ req \in [Browsers -> Request] /\ Ids' = Ids
      /\ alone \subseteq Browsers /\ knew \subseteq Browsers
      /\ req[b].kind # "settings"
      /\ UNCHANGED <<users, told, faults>>
  BY DEF AccountsInv, Enter, Ids, TypeOK, At
<1>r. /\ req' \in [Browsers -> Request]
      /\ \A c \in Browsers \ {b} : req'[c] = req[c]
      /\ req'[b] = Idle
      /\ knew' = knew \ {b} /\ alone' = alone \ {b}
  BY <1>t, EndsFacts DEF Enter
<1>c. /\ cookie' \in [Browsers -> Token]
      /\ \A c \in Browsers \ {b} : cookie'[c] = cookie[c]
      /\ IF entered THEN cookie'[b] = [id |-> req[b].id, valid |-> "yes"]
                    ELSE cookie'[b] = cookie[b]
  <2>1. cookie \in [Browsers -> Token] /\ req[b].id \in Nat
    BY <1>t DEF TypeOK, Request
  <2>2. [id |-> req[b].id, valid |-> "yes"] \in Token
    BY <2>1 DEF Token
  <2> QED
    BY <2>1, <2>2 DEF Enter
<1>e. /\ earned' \in [Browsers -> SUBSET Ids]
      /\ \A c \in Browsers : earned[c] \subseteq earned'[c]
      /\ b \in knew => {i \in Ids : users[i].name = req[b].name} \subseteq earned'[b]
  BY <1>t DEF Enter, TypeOK
<1>i. entered => req[b].id \in Ids /\ req[b].id \in earned'[b]
  BY <1>e DEF AccountsInv, EntriesRight
<1>1. TypeOK'
  <2>1. \A c \in Browsers : /\ cookie'[c].id \in {0} \cup Ids
                            /\ cookie'[c].valid = "yes" => cookie'[c].id # 0
    <3>1. \A c \in Browsers : /\ cookie[c].id \in {0} \cup Ids
                              /\ cookie[c].valid = "yes" => cookie[c].id # 0
      BY <1>t DEF TypeOK
    <3>2. 0 \notin Ids
      BY <1>t, TypeFacts
    <3> QED
      BY <3>1, <3>2, <1>c, <1>i
  <2>2. /\ knew' \subseteq Browsers /\ alone' \subseteq Browsers
        /\ told \in Seq(Info) /\ faults \in Nat
    BY <1>t, <1>r DEF TypeOK, Info
  <2>3. req'[b].id = 0 /\ req'[b].kind # "settings"
    BY <1>r, IdleFacts
  <2> QED
    BY <2>1, <2>2, <2>3, <1>t, <1>r, <1>c, <1>e, RequestTyped
<1>2. EntryEarned'
  <2> SUFFICES ASSUME NEW c \in Browsers
               PROVE  cookie'[c].id \in {0} \cup earned'[c]
    BY DEF EntryEarned
  <2>1. cookie[c].id \in {0} \cup earned[c]
    BY DEF AccountsInv, EntryEarned
  <2> QED
    BY <2>1, <1>c, <1>e, <1>i
<1>3. RightIsKnown'
  <2>1. ~Right(req'[b], users)
    BY <1>t, <1>r, IdleFacts, TypeFacts, BlankIsWrong
  <2> QED
    BY <2>1, <1>t, <1>r DEF AccountsInv, RightIsKnown
<1>g. FormsFilled'
  BY <1>r, IdleFacts DEF AccountsInv, FormsFilled, At
<1>4. EntriesRight'
  BY <1>t, <1>r, IdleFacts DEF AccountsInv, EntriesRight, At
<1>5. ChangersKnow'
  BY <1>r, IdleFacts DEF AccountsInv, ChangersKnow, At
<1>6. AloneIsAlone'
  BY <1>t, <1>r, IdleFacts, EndStays DEF AccountsInv
<1>7. AloneStands'
  BY ZenonT(40), <1>t, <1>r DEF AccountsInv, AloneStands
<1>8. ASSUME NEW i \in Ids
      PROVE  PwHeld(i)' /\ ShownHeld(i)'
  <2>1. PwHeld(i) /\ ShownHeld(i)
    BY <1>8 DEF AccountsInv
  <2>2. PwHeld(i)'
    BY <2>1, <1>r, <1>t DEF PwHeld, Changes
  <2>3. ShownHeld(i)'
    BY <2>1, <1>r, <1>t DEF ShownHeld, Changes
  <2> QED
    BY <2>2, <2>3
<1> QED
  BY <1>g, <1>t, <1>1, <1>2, <1>3, <1>4, <1>5, <1>6, <1>7, <1>8 DEF AccountsInv

\* The page that comes back tells what has been stored.
LEMMA ShowStep ==
  ASSUME AccountsInv, NEW b \in Browsers, ShowSettings(b)
  PROVE  AccountsInv'
<1> DEFINE n == req[b].id
           pws == Known(b, told[n].pw, req[b].new)
           names == Known(b, told[n].shown, req[b].shown)
           info == [pw |-> pws, shown |-> names]
<1>t. /\ TypeOK /\ req \in [Browsers -> Request] /\ Ids' = Ids /\ n \in Ids
      /\ alone \subseteq Browsers /\ knew \subseteq Browsers
      /\ req[b].kind = "settings" /\ req[b].at = "done"
      /\ UNCHANGED <<users, cookie, earned, faults>>
  <2>1. TypeOK /\ req[b].kind = "settings"
    BY DEF AccountsInv, ShowSettings, At
  <2> QED
    BY <2>1, TypeFacts DEF ShowSettings, Ids, TypeOK, At
<1>r. /\ req' \in [Browsers -> Request]
      /\ \A c \in Browsers \ {b} : req'[c] = req[c]
      /\ req'[b] = Idle
      /\ knew' = knew \ {b} /\ alone' = alone \ {b}
  BY <1>t, EndsFacts DEF ShowSettings
<1>k. pws \subseteq Passwords /\ names \subseteq Names \cup Shown
  <2>1. /\ told[n].pw \subseteq Passwords /\ told[n].shown \subseteq Names \cup Shown
        /\ req[b].new \in Passwords \cup {""} /\ req[b].shown \in Shown \cup {""}
    BY <1>t, TypeFacts DEF Info, Request
  <2> QED
    BY <2>1 DEF Known
<1>w. info \in Info
  BY <1>k DEF Info
<1>v. /\ told' \in Seq(Info) /\ Len(told') = Len(told)
      /\ told'[n].pw = pws /\ told'[n].shown = names
      /\ \A j \in Ids \ {n} : told'[j] = told[j]
  <2>1. told' = [told EXCEPT ![n] = info]
    BY DEF ShowSettings
  <2>2. told \in Seq(Info) /\ n \in 1 .. Len(told) /\ Ids = DOMAIN told
    BY <1>t, TypeFacts DEF TypeOK, Info, Ids
  <2>3. info.pw = pws /\ info.shown = names
    OBVIOUS
  <2> HIDE DEF info, pws, names, n
  <2>4. told' \in Seq(Info) /\ Len(told') = Len(told)
    BY <2>1, <2>2, <1>w, ExceptSeq
  <2> QED
    BY <2>1, <2>2, <2>3, <2>4
<1> HIDE DEF n, pws, names, info
<1>1. TypeOK'
  <2>1. \A c \in Browsers : /\ cookie[c].id \in {0} \cup Ids
                            /\ cookie[c].valid = "yes" => cookie[c].id # 0
    BY <1>t DEF TypeOK
  <2>2. /\ knew' \subseteq Browsers /\ alone' \subseteq Browsers
        /\ cookie \in [Browsers -> Token] /\ earned \in [Browsers -> SUBSET Ids]
        /\ faults \in Nat
    BY <1>t, <1>r DEF TypeOK
  <2>3. req'[b].id = 0 /\ req'[b].kind # "settings"
    BY <1>r, IdleFacts
  <2> QED
    BY <2>1, <2>2, <2>3, <1>t, <1>r, <1>v, RequestTyped
<1>2. EntryEarned'
  BY <1>t DEF AccountsInv, EntryEarned
<1>3. RightIsKnown'
  <2>1. ~Right(req'[b], users)
    BY <1>t, <1>r, IdleFacts, TypeFacts, BlankIsWrong
  <2> QED
    BY <2>1, <1>t, <1>r DEF AccountsInv, RightIsKnown
<1>g. FormsFilled'
  BY <1>r, IdleFacts DEF AccountsInv, FormsFilled, At
<1>4. EntriesRight'
  BY ZenonT(40), <1>t, <1>r, IdleFacts DEF AccountsInv, EntriesRight, At
<1>5. ChangersKnow'
  BY <1>r, IdleFacts DEF AccountsInv, ChangersKnow, At
<1>6. AloneIsAlone'
  BY <1>t, <1>r, IdleFacts, EndStays DEF AccountsInv
<1>7. AloneStands'
  BY ZenonT(40), <1>t, <1>r DEF AccountsInv, AloneStands
<1>8. ASSUME NEW i \in Ids
      PROVE  PwHeld(i)' /\ ShownHeld(i)'
  <2>1. PwHeld(i) /\ ShownHeld(i) /\ users[i].pw # "" /\ users[i].shown # ""
    BY <1>8, <1>t, TypeFacts DEF AccountsInv
  <2>2. CASE i # n
    <3>1. told'[i] = told[i]
      BY <2>2, <1>8, <1>v
    <3>2. PwHeld(i)'
      BY <2>1, <2>2, <3>1, <1>r, <1>t DEF PwHeld, Changes, n
    <3>3. ShownHeld(i)'
      BY <2>1, <2>2, <3>1, <1>r, <1>t DEF ShownHeld, Changes, n
    <3> QED
      BY <3>2, <3>3
  <2>3. CASE i = n
    <3>0. b \in alone => /\ req[b].new # "" => users[n].pw = req[b].new
                         /\ req[b].shown # "" => users[n].shown = req[b].shown
      BY <1>t DEF AccountsInv, AloneStands, n
    <3>1. PwHeld(i)'
      <4>1. CASE users[n].pw \in pws
        BY <2>3, <4>1, <1>t, <1>v DEF PwHeld
      <4>2. CASE users[n].pw \notin pws
        <5>1. users[n].pw \notin told[n].pw /\ users[n].pw # req[b].new
          BY <2>1, <2>3, <3>0, <4>2 DEF pws, Known
        <5>2. PICK c \in knew :
                     Changes(c, n) /\ req[c].at = "done" /\ req[c].new = users[n].pw
          BY <2>1, <2>3, <5>1 DEF PwHeld
        <5> QED
          BY <2>3, <5>1, <5>2, <1>r, <1>t DEF PwHeld, Changes
      <4> QED
        BY <4>1, <4>2
    <3>2. ShownHeld(i)'
      <4>1. CASE users[n].shown \in names
        BY <2>3, <4>1, <1>t, <1>v DEF ShownHeld
      <4>2. CASE users[n].shown \notin names
        <5>1. users[n].shown \notin told[n].shown /\ users[n].shown # req[b].shown
          BY <2>1, <2>3, <3>0, <4>2 DEF names, Known
        <5>2. PICK c \in Browsers :
                     Changes(c, n) /\ req[c].at # "name" /\ req[c].shown = users[n].shown
          BY <2>1, <2>3, <5>1 DEF ShownHeld
        <5> QED
          BY <2>3, <5>1, <5>2, <1>r, <1>t DEF ShownHeld, Changes
      <4> QED
        BY <4>1, <4>2
    <3> QED
      BY <3>1, <3>2
  <2> QED
    BY <2>2, <2>3
<1> QED
  BY <1>g, <1>t, <1>1, <1>2, <1>3, <1>4, <1>5, <1>6, <1>7, <1>8 DEF AccountsInv

\* Whatever is held is told of or doubted.
LEMMA HeldFacts ==
  ASSUME AccountsInv, NEW i \in Ids
  PROVE  /\ users[i].pw \in told[i].pw \cup DoubtedPw(i)
         /\ users[i].shown \in told[i].shown \cup DoubtedShown(i)
<1>1. PwHeld(i) /\ ShownHeld(i) /\ users[i].pw # "" /\ users[i].shown # ""
  BY TypeFacts DEF AccountsInv
<1>2. users[i].pw \in told[i].pw \cup DoubtedPw(i)
  BY <1>1 DEF PwHeld, DoubtedPw
<1>3. users[i].shown \in told[i].shown \cup DoubtedShown(i)
  BY <1>1 DEF ShownHeld, DoubtedShown
<1> QED
  BY <1>2, <1>3

\* A crash: what requests in flight have stored is doubted from then on.
LEMMA CrashStep ==
  ASSUME AccountsInv, Crash
  PROVE  AccountsInv'
<1>t. /\ TypeOK /\ Ids' = Ids
      /\ UNCHANGED <<users, cookie, earned>> /\ knew' = {} /\ alone' = {}
      /\ faults' \in Nat
      /\ req' = [b \in Browsers |-> Idle]
  <2>1. TypeOK /\ faults \in Nat
    BY DEF AccountsInv, TypeOK
  <2>2. faults' = faults + 1 /\ UNCHANGED users
    BY DEF Crash, Fails
  <2>3. Ids' = Ids
    BY <2>2 DEF Ids
  <2> QED
    BY <2>1, <2>2, <2>3 DEF Crash
<1>d. \A i \in Ids : /\ DoubtedPw(i) \subseteq Passwords
                     /\ DoubtedShown(i) \subseteq Shown
  <2>1. \A b \in Browsers : req[b].new \in Passwords \cup {""} /\ req[b].shown \in Shown \cup {""}
    BY <1>t, TypeFacts DEF Request
  <2>2. knew \subseteq Browsers
    BY <1>t DEF TypeOK
  <2> QED
    BY <2>1, <2>2 DEF DoubtedPw, DoubtedShown
<1>v. /\ told' \in Seq(Info) /\ Len(told') = Len(users)
      /\ \A i \in Ids : /\ told'[i].pw = told[i].pw \cup DoubtedPw(i)
                        /\ told'[i].shown = told[i].shown \cup DoubtedShown(i)
  <2> DEFINE info(i) == [pw |-> told[i].pw \cup DoubtedPw(i),
                         shown |-> told[i].shown \cup DoubtedShown(i)]
  <2>1. told' = [i \in Ids |-> info(i)]
    BY DEF Crash
  <2>2. \A i \in Ids : info(i) \in Info
    <3> SUFFICES ASSUME NEW i \in Ids
                 PROVE  info(i) \in Info
      OBVIOUS
    <3>1. told[i].pw \subseteq Passwords /\ told[i].shown \subseteq Names \cup Shown
      BY <1>t, TypeFacts DEF Info
    <3> QED
      BY <3>1, <1>d DEF Info
  <2>3. \A i \in Ids : /\ info(i).pw = told[i].pw \cup DoubtedPw(i)
                       /\ info(i).shown = told[i].shown \cup DoubtedShown(i)
    OBVIOUS
  <2> HIDE DEF info
  <2>4. told' \in [1 .. Len(users) -> Info] /\ Len(users) \in Nat
    BY <2>1, <2>2, <1>t, TypeFacts DEF Ids
  <2>5. told' \in Seq(Info) /\ DOMAIN told' = 1 .. Len(users)
    BY <2>4, SeqDef
  <2>6. Len(told') = Len(users)
    BY <2>4, <2>5, LenProperties
  <2> QED
    BY <2>1, <2>3, <2>5, <2>6
<1>1. TypeOK'
  <2>1. \A b \in Browsers : req'[b] = Idle
    BY <1>t
  <2>2. \A b \in Browsers : {cookie'[b].id, req'[b].id} \subseteq {0} \cup Ids
    BY <2>1, <1>t, IdleFacts DEF TypeOK
  <2>3. req' \in [Browsers -> Request]
    BY <1>t, IdleFacts
  <2>4. \A b \in Browsers : req'[b].kind # "settings"
    BY <2>1, IdleFacts
  <2> QED
    BY <2>2, <2>3, <2>4, <1>t, <1>v DEF TypeOK, Info
<1>2. EntryEarned'
  BY <1>t DEF AccountsInv, EntryEarned
<1>3. RightIsKnown'
  <2>1. ~Right(Idle, users)
    BY <1>t, IdleFacts, TypeFacts, BlankIsWrong
  <2> QED
    BY <2>1, <1>t DEF RightIsKnown
<1>4. FormsFilled' /\ EntriesRight' /\ ChangersKnow'
  BY <1>t, IdleFacts DEF FormsFilled, EntriesRight, ChangersKnow, At
<1>5. AloneIsAlone' /\ AloneStands'
  BY <1>t DEF AloneIsAlone, AloneStands
<1>6. ASSUME NEW i \in Ids
      PROVE  PwHeld(i)' /\ ShownHeld(i)'
  <2>1. users[i].pw \in told[i].pw \cup DoubtedPw(i)
    BY <1>6, <1>t, HeldFacts
  <2>2. users[i].shown \in told[i].shown \cup DoubtedShown(i)
    BY <1>6, <1>t, HeldFacts
  <2> QED
    BY <2>1, <2>2, <1>t, <1>v DEF PwHeld, ShownHeld
<1> QED
  BY <1>t, <1>1, <1>2, <1>3, <1>4, <1>5, <1>6 DEF AccountsInv

-----------------------------------------------------------------------------
(* The steps of the handlers *)

\* UpdateDisplayName, CheckPassword and ChangePassword.
LEMMA SettingsStep ==
  ASSUME AccountsInv, NEW b \in Browsers,
         UpdateDisplayName(b) \/ CheckPassword(b) \/ ChangePassword(b)
  PROVE  AccountsInv'
<1>t. /\ TypeOK /\ req[b].kind = "settings" /\ req[b].id \in Ids
      /\ req[b].id \in Nat /\ req[b].name = users[req[b].id].name
  <2>1. TypeOK /\ req[b].kind = "settings"
    BY DEF AccountsInv, UpdateDisplayName, CheckPassword, ChangePassword, At
  <2> QED
    BY <2>1, TypeFacts DEF TypeOK
<1>f. faults \in Nat /\ (Fails => faults' \in Nat)
  BY <1>t DEF TypeOK, Fails
<1>1. CASE UpdateDisplayName(b)
  <2>1. /\ At(b, {"settings"}, "name") /\ req[b].at = "name"
        /\ UNCHANGED <<cookie, told, earned, knew, alone>>
    BY <1>1 DEF UpdateDisplayName, At, ghosts
  <2>2. CASE /\ req[b].shown # ""
             /\ users' = [users EXCEPT ![req[b].id].shown = req[b].shown]
             /\ Goes(b, "check")
             /\ UNCHANGED faults
    BY <2>1, <2>2, DisplayNameStep
  <2>3. CASE req[b].shown = "" /\ Goes(b, "check") /\ UNCHANGED <<users, faults>>
    BY <2>1, <2>3, <1>t, <1>f, GoesStep
  <2>4. CASE Fails /\ Answers(b, "name not saved", req[b].id) /\ UNCHANGED users
    BY <2>1, <2>4, <1>t, <1>f, AnswerStep
  <2> QED
    BY <1>1, <2>2, <2>3, <2>4 DEF UpdateDisplayName
<1>2. CASE CheckPassword(b)
  <2>1. /\ req[b].at = "check"
        /\ UNCHANGED <<users, cookie, told, earned, knew, alone>>
    BY <1>2 DEF CheckPassword, At, ghosts
  <2>2. CASE req[b].new = "" /\ Answers(b, "saved", req[b].id) /\ UNCHANGED faults
    BY <2>1, <2>2, <1>t, <1>f, AnswerStep
  <2>3. CASE MayChange(req[b]) /\ Goes(b, "change") /\ UNCHANGED faults
    <3>1. PICK i \in DOMAIN users : users[i].name = req[b].name /\ users[i].pw = req[b].pw
      BY <2>3 DEF MayChange, Authenticated
    <3>2. i = req[b].id
      <4>1. i \in Ids
        BY <3>1, <1>t, TypeFacts
      <4>2. \A j, k \in Ids : users[j].name = users[k].name => j = k
        BY <1>t DEF TypeOK
      <4>3. users[i].name = users[req[b].id].name
        BY <3>1, <1>t
      <4> QED
        BY <4>1, <4>2, <4>3, <1>t
    <3>3. Right(req[b], users)
      BY <3>1, <3>2, <1>t DEF Right
    <3>4. b \in knew /\ req[b].new # "" /\ users[req[b].id].pw = req[b].pw
      BY <2>3, <3>1, <3>2, <3>3 DEF AccountsInv, RightIsKnown, MayChange
    <3> QED
      BY <2>1, <2>3, <3>4, <1>t, <1>f, GoesStep
  <2>4. CASE Answers(b, "password not saved", req[b].id) /\ faults' \in Nat
    BY <2>1, <2>4, <1>t, AnswerStep
  <2> QED
    BY <1>2, <1>f, <2>2, <2>3, <2>4 DEF CheckPassword
<1>3. CASE ChangePassword(b)
  <2>1. /\ At(b, {"settings"}, "change") /\ req[b].at = "change"
        /\ UNCHANGED <<cookie, told, earned, alone>>
    BY <1>3 DEF ChangePassword, At
  <2>2. CASE /\ users' = [users EXCEPT ![req[b].id].pw = req[b].new]
             /\ Answers(b, "saved", req[b].id)
             /\ knew' = Know(Browsers \ {b}, users')
             /\ UNCHANGED faults
    BY <2>1, <2>2, PasswordStep
  <2>3. CASE /\ Fails /\ Answers(b, "password not saved", req[b].id)
             /\ UNCHANGED <<users, knew>>
    BY <2>1, <2>3, <1>t, <1>f, AnswerStep
  <2> QED
    BY <1>3, <2>2, <2>3 DEF ChangePassword
<1> QED
  BY <1>1, <1>2, <1>3

\* SendRegister, SendLogin and SendSettings.
LEMMA RequestStep ==
  ASSUME AccountsInv, NEW b \in Browsers,
         SendRegister(b) \/ SendLogin(b) \/ SendSettings(b)
  PROVE  AccountsInv'
<1>t. TypeOK /\ alone \subseteq Browsers
  BY DEF AccountsInv, TypeOK
<1>i. ~InFlight(b) => b \notin alone
  BY DEF AccountsInv, AloneIsAlone, InFlight
<1>1. CASE SendRegister(b)
  <2>1. PICK name \in Names, pw \in Passwords, confirm \in Passwords :
               Sends(b, [Idle EXCEPT !.kind = "register", !.at = "create",
                                     !.name = name, !.pw = pw, !.new = confirm])
    BY <1>1 DEF SendRegister
  <2> DEFINE r == [Idle EXCEPT !.kind = "register", !.at = "create",
                               !.name = name, !.pw = pw, !.new = confirm]
  <2>2. r \in Request /\ r.kind = "register" /\ r.at = "create" /\ r.id = 0
        /\ r.name # "" /\ r.pw # ""
    BY AccountsAssumption DEF Idle, Request
  <2>3. Sends(b, r)
    BY <2>1
  <2>4. UNCHANGED <<users, cookie, faults, told, earned, alone>> /\ b \notin alone
    BY <1>1, <1>i, <2>1 DEF SendRegister, Sends
  <2> HIDE DEF r
  <2> QED
    BY <2>2, <2>3, <2>4, SendStep
<1>2. CASE SendLogin(b)
  <2>1. PICK name \in Names, pw \in Passwords :
               Sends(b, [Idle EXCEPT !.kind = "login", !.at = "check",
                                     !.name = name, !.pw = pw])
    BY <1>2 DEF SendLogin
  <2> DEFINE r == [Idle EXCEPT !.kind = "login", !.at = "check", !.name = name, !.pw = pw]
  <2>2. r \in Request /\ r.kind = "login" /\ r.at = "check" /\ r.id = 0
    BY DEF Idle, Request
  <2>3. Sends(b, r)
    BY <2>1
  <2>4. UNCHANGED <<users, cookie, faults, told, earned, alone>> /\ b \notin alone
    BY <1>2, <1>i, <2>1 DEF SendLogin, Sends
  <2> HIDE DEF r
  <2> QED
    BY <2>2, <2>3, <2>4, SendStep
<1>3. CASE SendSettings(b)
  <2> DEFINE n == cookie[b].id
             beside == {c \in Browsers : Changes(c, n)}
  <2>n. n \in Ids /\ n # 0 /\ n \in Nat /\ users[n].name \in Names
    <3>1. {cookie[b].id, req[b].id} \subseteq {0} \cup Ids /\ cookie[b].id # 0
      BY <1>3, <1>t DEF SendSettings, TypeOK
    <3>2. n \in Ids
      BY <3>1
    <3> QED
      BY <3>1, <3>2, <1>t, TypeFacts DEF User
  <2>1. PICK shown \in Shown \cup {""}, pw \in Passwords \cup {""},
             new \in Passwords \cup {""} :
               Sends(b, [Idle EXCEPT !.kind = "settings", !.at = "name", !.id = n,
                                     !.name = users[n].name, !.shown = shown,
                                     !.pw = pw, !.new = new])
    BY <1>3 DEF SendSettings
  <2> DEFINE r == [Idle EXCEPT !.kind = "settings", !.at = "name", !.id = n,
                               !.name = users[n].name, !.shown = shown,
                               !.pw = pw, !.new = new]
  <2>3. Sends(b, r)
    BY <2>1
  <2>4. UNCHANGED <<users, cookie, faults, told, earned>>
    BY <1>3 DEF SendSettings
  <2>5. alone' = (alone \ beside) \cup (IF beside = {} THEN {b} ELSE {})
    BY <1>3 DEF SendSettings
  <2>6. b \notin alone
    BY <1>i, <2>1 DEF Sends
  <2> HIDE DEF n
  <2>2. /\ r \in Request /\ r.kind = "settings" /\ r.at = "name" /\ r.id = n
        /\ r.name = users[n].name
    BY <2>n DEF Idle, Request
  <2> HIDE DEF r
  <2>7. \A a \in alone' \ {b} : ~(r.kind = "settings" /\ r.id = req[a].id)
    <3> SUFFICES ASSUME NEW a \in alone' \ {b}
                 PROVE  n # req[a].id
      BY <2>2
    <3>1. a \in alone /\ a \in Browsers /\ a \notin beside
      BY <2>5, <1>t
    <3>2. req[a].kind = "settings"
      BY <3>1 DEF AccountsInv, AloneIsAlone
    <3> QED
      BY <3>1, <3>2 DEF Changes
  <2>8. b \in alone' => \A c \in Browsers \ {b} : ~Changes(c, r.id)
    BY <2>2, <2>5, <2>6
  <2>9. alone' \subseteq alone \cup {b}
    BY <2>5
  <2> HIDE DEF beside
  <2> QED
    BY <2>n, <2>2, <2>3, <2>4, <2>7, <2>8, <2>9, SendStep
<1> QED
  BY <1>1, <1>2, <1>3

\* A registration appends a row, and tells its password.
LEMMA CreateRow ==
  ASSUME AccountsInv, NEW b \in Browsers, At(b, {"register"}, "create"),
         ~Taken(req[b].name), NEW row \in User, NEW info \in Info,
         row.name = req[b].name, row.pw = req[b].pw, row.shown = req[b].name,
         info.pw = {req[b].pw}, info.shown = {req[b].name},
         users' = Append(users, row), told' = Append(told, info),
         Answers(b, "entry", Len(users) + 1), knew' = Know(Browsers, users'),
         UNCHANGED <<cookie, faults, earned, alone>>
  PROVE  AccountsInv'
<1> DEFINE n == Len(users) + 1
<1>1. /\ users \in Seq(User) /\ told \in Seq(Info) /\ Len(told) = Len(users)
      /\ Len(users) \in Nat
  BY TypeFacts DEF AccountsInv, TypeOK, Info
<1>2. /\ users' \in Seq(User) /\ Len(users') = n
      /\ users'[n] = row /\ \A j \in Ids : users'[j] = users[j]
  BY <1>1, AppendFacts DEF Ids
<1>3. /\ told' \in Seq(Info) /\ Len(told') = n
      /\ told'[n] = info /\ \A j \in Ids : told'[j] = told[j]
  BY <1>1, AppendFacts DEF Ids
<1>4. n \in Nat /\ n # 0 /\ n \notin Ids /\ Ids' = Ids \cup {n}
  <2>1. Ids' = 1 .. n
    BY <1>2 DEF Ids
  <2> QED
    BY <1>1, <2>1 DEF Ids
<1>5. Answers(b, "entry", n)
  OBVIOUS
<1> HIDE DEF n
<1> QED
  BY <1>2, <1>3, <1>4, <1>5, CreateStep

\* RefuseRegistration, CreateUser and Login.
LEMMA EntranceStep ==
  ASSUME AccountsInv, NEW b \in Browsers,
         RefuseRegistration(b) \/ CreateUser(b) \/ Login(b)
  PROVE  AccountsInv'
<1>t. /\ TypeOK /\ req[b] \in Request /\ req[b].kind # "settings" /\ req[b].at # "done"
      /\ Ids \subseteq Nat
  <2>1. TypeOK /\ req[b].kind # "settings" /\ req[b].at # "done"
    BY DEF AccountsInv, RefuseRegistration, CreateUser, Login, At
  <2> QED
    BY <2>1, TypeFacts
<1>f. faults \in Nat /\ (Fails => faults' \in Nat)
  BY <1>t DEF TypeOK, Fails
<1>a. ASSUME Answers(b, "refused", 0), faults' \in Nat,
             UNCHANGED <<users, cookie, told, earned, knew, alone>>
      PROVE  AccountsInv'
  BY <1>t, <1>a, AnswerStep
<1>1. CASE RefuseRegistration(b)
  BY <1>1, <1>a, <1>f DEF RefuseRegistration, ghosts
<1>2. CASE CreateUser(b)
  <2>1. /\ At(b, {"register"}, "create") /\ ~Refuses(req[b])
        /\ UNCHANGED <<cookie, earned, alone>>
    BY <1>2 DEF CreateUser
  <2>2. CASE /\ ~Taken(req[b].name)
             /\ users' = Append(users, [name |-> req[b].name, pw |-> req[b].pw,
                                        shown |-> req[b].name])
             /\ told' = Append(told, [pw |-> {req[b].pw}, shown |-> {req[b].name}])
             /\ Answers(b, "entry", Len(users) + 1)
             /\ knew' = Know(Browsers, users')
             /\ UNCHANGED faults
    <3> DEFINE row  == [name |-> req[b].name, pw |-> req[b].pw, shown |-> req[b].name]
               info == [pw |-> {req[b].pw}, shown |-> {req[b].name}]
    <3>1. /\ row.name = req[b].name /\ row.pw = req[b].pw /\ row.shown = req[b].name
          /\ info.pw = {req[b].pw} /\ info.shown = {req[b].name}
      OBVIOUS
    <3>2. row \in User /\ info \in Info
      <4>1. req[b].name \in Names /\ req[b].pw \in Passwords
        BY <2>1, <1>t DEF AccountsInv, FormsFilled, Request
      <4> QED
        BY <4>1 DEF User, Info
    <3>3. users' = Append(users, row) /\ told' = Append(told, info)
      BY <2>2
    <3>4. ~Taken(req[b].name) /\ Answers(b, "entry", Len(users) + 1)
          /\ knew' = Know(Browsers, users') /\ UNCHANGED faults
      BY <2>2
    <3> HIDE DEF row, info
    <3> QED
      BY <2>1, <3>1, <3>2, <3>3, <3>4, CreateRow
  <2>3. CASE /\ Taken(req[b].name)
             /\ Answers(b, "refused", 0)
             /\ UNCHANGED <<users, told, knew, faults>>
    BY <2>1, <2>3, <1>a, <1>f
  <2>4. CASE Fails /\ Answers(b, "refused", 0) /\ UNCHANGED <<users, told, knew>>
    BY <2>1, <2>4, <1>a, <1>f
  <2> QED
    BY <1>2, <2>2, <2>3, <2>4 DEF CreateUser, TakenAnswer
<1>3. CASE Login(b)
  <2>1. /\ At(b, {"login"}, "check")
        /\ UNCHANGED <<users, cookie, told, earned, knew, alone>>
    BY <1>3 DEF Login, ghosts
  <2>2. ASSUME NEW i \in Authenticated(users, req[b].name, req[b].pw),
               Answers(b, "entry", i), UNCHANGED faults
        PROVE  AccountsInv'
    <3>1. i \in Ids /\ users[i].name = req[b].name /\ users[i].pw = req[b].pw
      BY <1>t, TypeFacts DEF Authenticated
    <3>2. Right(req[b], users)
      BY <3>1, <1>t, TypeFacts DEF Right
    <3>3. b \in knew
      BY <3>2 DEF AccountsInv, RightIsKnown
    <3> QED
      BY <2>1, <2>2, <3>1, <3>3, <1>t, <1>f, AnswerStep
  <2>3. CASE Answers(b, "refused", 0) /\ faults' \in Nat
    BY <2>1, <2>3, <1>a
  <2> QED
    BY <1>3, <1>f, <2>2, <2>3 DEF Login
<1> QED
  BY <1>1, <1>2, <1>3

\* Logout, Expire and Redirect.
LEMMA TokenStep ==
  ASSUME AccountsInv, NEW b \in Browsers, Logout(b) \/ Expire(b) \/ Redirect(b)
  PROVE  AccountsInv'
<1>1. /\ \/ cookie' = [cookie EXCEPT ![b] = NoToken]
         \/ cookie' = [cookie EXCEPT ![b].valid = "no"]
      /\ UNCHANGED <<users, req, faults, told, earned, knew, alone>>
  BY DEF Logout, Expire, Redirect, ghosts
<1> QED
  BY <1>1, CookieStep

-----------------------------------------------------------------------------
(* The theorems *)

\* The inductive invariant.
LEMMA AccountsInvInit == Init => AccountsInv
<1> SUFFICES ASSUME Init
             PROVE  AccountsInv
  OBVIOUS
<1>1. users = << >> /\ told = << >> /\ Len(users) = 0 /\ Len(told) = 0 /\ Ids = {}
  BY DEF Init, Ids
<1>2. TypeOK
  <2>1. users \in Seq(User) /\ told \in Seq(Info)
    BY <1>1
  <2>2. req \in [Browsers -> Request] /\ \A b \in Browsers : req[b].id = 0 /\ req[b].kind = "idle"
    BY IdleFacts DEF Init
  <2>3. cookie \in [Browsers -> Token]
        /\ \A b \in Browsers : cookie[b].id = 0 /\ cookie[b].valid = "no"
    BY DEF Init, Token, NoToken
  <2>4. earned \in [Browsers -> SUBSET Ids] /\ knew = {} /\ alone = {} /\ faults = 0
    BY DEF Init
  <2> QED
    BY <1>1, <2>1, <2>2, <2>3, <2>4 DEF TypeOK, Info
<1>3. EntryEarned
  BY DEF Init, EntryEarned, NoToken
<1>4. RightIsKnown /\ FormsFilled /\ EntriesRight /\ ChangersKnow
  <2>1. DOMAIN users = {}
    BY <1>1
  <2>2. ~Right(Idle, users)
    BY <2>1, IdleFacts, BlankIsWrong
  <2> QED
    BY <2>2, IdleFacts DEF Init, RightIsKnown, FormsFilled, EntriesRight, ChangersKnow, At
<1>5. AloneIsAlone /\ AloneStands
  BY DEF Init, AloneIsAlone, AloneStands
<1> QED
  BY <1>1, <1>2, <1>3, <1>4, <1>5 DEF AccountsInv

LEMMA AccountsInvNext == AccountsInv /\ [Next]_vars => AccountsInv'
<1> SUFFICES ASSUME AccountsInv, [Next]_vars
             PROVE  AccountsInv'
  OBVIOUS
<1>1. CASE UNCHANGED vars
  <2>1. UNCHANGED <<users, cookie, req, faults, told, earned, knew, alone>>
    BY <1>1 DEF vars, ghosts
  <2>2. Ids' = Ids
    BY <2>1 DEF Ids
  <2>3. TypeOK' /\ EntryEarned'
    BY <2>1, <2>2 DEF AccountsInv, TypeOK, EntryEarned
  <2>4. RightIsKnown' /\ FormsFilled' /\ EntriesRight' /\ ChangersKnow'
    BY <2>1, <2>2 DEF AccountsInv, RightIsKnown, FormsFilled, EntriesRight, ChangersKnow, At
  <2>5. AloneIsAlone' /\ AloneStands'
    BY <2>1 DEF AccountsInv, AloneIsAlone, AloneStands, Changes
  <2>6. \A i \in Ids : PwHeld(i)' /\ ShownHeld(i)'
    BY <2>1 DEF AccountsInv, PwHeld, ShownHeld, Changes
  <2> QED
    BY <2>2, <2>3, <2>4, <2>5, <2>6 DEF AccountsInv
<1>2. CASE Crash
  BY <1>2, CrashStep
<1>3. ASSUME NEW b \in Browsers, Step(b)
      PROVE  AccountsInv'
  BY <1>3, RequestStep, EntranceStep, TokenStep, SettingsStep, EnterStep, ShowStep DEF Step
<1> QED
  BY <1>1, <1>2, <1>3 DEF Next

THEOREM AccountsInvariant == Spec => []AccountsInv
BY AccountsInvInit, AccountsInvNext, PTL DEF Spec

\* Rows, tokens and requests are of their types, and a username has one row.
THEOREM AccountsTyped == Spec => []TypeOK
<1>1. AccountsInv => TypeOK
  BY DEF AccountsInv
<1> QED
  BY <1>1, AccountsInvariant, PTL

\* Nobody gets a token for an account without having given its password.
THEOREM AccountsEntryEarned == Spec => []EntryEarned
<1>1. AccountsInv => EntryEarned
  BY DEF AccountsInv
<1> QED
  BY <1>1, AccountsInvariant, PTL

\* What is stored was told, or is doubted: no answer of the settings page lies,
\* and a password stored without an answer comes of a request that had given one
\* of the account's passwords while it was the account's (handleSettings).
THEOREM AccountsUserInformed == Spec => []UserInformed
<1>1. AccountsInv => UserInformed
  BY HeldFacts DEF UserInformed
<1> QED
  BY <1>1, AccountsInvariant, PTL

\* Only the settings page replaces a password, and there the present one was
\* given, unless another request for the account ran beside it.
LEMMA ReplaceStep ==
  ASSUME AccountsInv, Next, NEW i \in Ids, users'[i].pw # users[i].pw
  PROVE  \E b \in Browsers : /\ Changes(b, i) /\ At(b, {"settings"}, "change")
                             /\ b \in alone => req[b].pw = users[i].pw
<1>t. /\ TypeOK /\ users \in Seq(User) /\ Ids \subseteq Nat
      /\ Len(users) \in Nat
  BY TypeFacts DEF AccountsInv, TypeOK
<1>1. users' # users
  OBVIOUS
<1>2. PICK b \in Browsers :
         CreateUser(b) \/ UpdateDisplayName(b) \/ ChangePassword(b)
  BY <1>1, Zenon DEF Next, Step, SendRegister, RefuseRegistration, SendLogin, Login,
     Enter, Logout, Expire, SendSettings, Redirect, CheckPassword, ShowSettings, Crash
<1>3. ASSUME CreateUser(b) PROVE FALSE
  <2>1. PICK row : users' = Append(users, row)
    BY <1>1, <1>3 DEF CreateUser
  <2> QED
    BY <1>t, <2>1 DEF Ids
<1>4. ASSUME UpdateDisplayName(b) PROVE FALSE
  <2>1. users' = [users EXCEPT ![req[b].id].shown = req[b].shown]
    BY <1>1, <1>4 DEF UpdateDisplayName
  <2> QED
    BY <1>t, <2>1 DEF Ids, User
<1>5. CASE ChangePassword(b)
  <2>1. /\ At(b, {"settings"}, "change")
        /\ users' = [users EXCEPT ![req[b].id].pw = req[b].new]
    BY <1>1, <1>5 DEF ChangePassword
  <2>2. i = req[b].id
    BY <1>t, <2>1 DEF Ids
  <2>3. Changes(b, i) /\ (b \in alone => req[b].pw = users[i].pw)
    BY <2>1, <2>2 DEF Changes, At, AccountsInv, AloneStands
  <2> QED
    BY <2>1, <2>3
<1> QED
  BY <1>2, <1>3, <1>4, <1>5

\* A password that is replaced was given by the request that replaces it, or
\* another request for the account ran beside that one (handleSettings,
\* ChangePassword).
THEOREM AccountsReplacedKnowingly == Spec => ReplacedKnowingly
<1> DEFINE Replaced(i) ==
      \E b \in Browsers : /\ Changes(b, i) /\ At(b, {"settings"}, "change")
                          /\ b \in alone => req[b].pw = users[i].pw
<1>1. AccountsInv /\ [Next]_vars =>
        [\A i \in Ids : users'[i].pw # users[i].pw => Replaced(i)]_vars
  BY ReplaceStep
<1> QED
  BY <1>1, AccountsInvariant, PTL DEF Spec, ReplacedKnowingly

=============================================================================

--------------------------- MODULE ContactsProofs ---------------------------
(***************************************************************************)
(* Contacts is type correct, and two ends that changed the burn setting of  *)
(* their conversation end with the same one, for any number of users, any   *)
(* settings and any clocks.                                                 *)
(*                                                                         *)
(* BurnAgrees says so only once nothing is on the way.  The inductive       *)
(* invariant Settling says what a setting on its way is good for: the end   *)
(* with the later stamp has its setting under way to the other, nothing     *)
(* under way is later than what its sender holds, and equal stamps mean     *)
(* equal settings.                                                          *)
(***************************************************************************)
EXTENDS Contacts, TLAPS

-----------------------------------------------------------------------------
(* Types. *)

LEMMA BlankTyped == Blank \in Row
BY SettingsAssumption, BoundAssumption DEF Blank, Row, Time

\* One row is written.
Replaces(u, w, r) == row' = [row EXCEPT ![u][w] = r]

LEMMA RowReplaced ==
    ASSUME TypeOK, NEW u \in Users, NEW w \in Users, NEW r \in Row,
           Replaces(u, w, r)
    PROVE  /\ row' \in [Users -> [Users -> Row]]
           /\ row'[u][w] = r
           /\ \A a \in Users, b \in Users : a # u \/ b # w => row'[a][b] = row[a][b]
BY DEF Replaces, TypeOK

Unnames(u, w) == row' = [row EXCEPT ![u][w].name = 0]

LEMMA NameSet ==
    ASSUME TypeOK, NEW u \in Users, NEW w \in Users, Unnames(u, w)
    PROVE  /\ row' \in [Users -> [Users -> Row]]
           /\ \A x \in Users, y \in Users : /\ row'[x][y].secs = row[x][y].secs
                                            /\ row'[x][y].at = row[x][y].at
<1>1. row[u][w] \in Row
  BY DEF TypeOK
<1>2. PICK r : r = [row[u][w] EXCEPT !.name = 0]
  OBVIOUS
<1>3. r \in Row /\ r.secs = row[u][w].secs /\ r.at = row[u][w].at
  BY <1>1, <1>2 DEF Row
<1>4. Replaces(u, w, r)
  BY <1>1, <1>2 DEF TypeOK, Replaces, Unnames
<1>5. /\ row' \in [Users -> [Users -> Row]] /\ row'[u][w] = r
      /\ \A a \in Users, b \in Users : a # u \/ b # w => row'[a][b] = row[a][b]
  BY <1>3, <1>4, RowReplaced
<1>6. ASSUME NEW x \in Users, NEW y \in Users
      PROVE  row'[x][y].secs = row[x][y].secs /\ row'[x][y].at = row[x][y].at
  <2>1. CASE x = u /\ y = w
    BY <1>3, <1>5, <2>1
  <2>2. CASE x # u \/ y # w
    BY <1>5, <2>2
  <2> QED BY <2>1, <2>2
<1> QED BY <1>5, <1>6

\* A setting without a connection.
LEMMA OfflineRow ==
    ASSUME TypeOK, NEW u \in Users, NEW w \in Users, NEW secs \in Settings,
           NEW t \in Time, SetBurnOffline(u, w, secs, t)
    PROVE  \E r \in Row : Replaces(u, w, r) /\ r.secs = secs /\ r.at = t
<1>1. row[u][w] \in Row
  BY DEF TypeOK
<1>2. PICK r : r = [[row[u][w] EXCEPT !.secs = secs] EXCEPT !.at = t]
  OBVIOUS
<1>3. r \in Row /\ r.secs = secs /\ r.at = t
  BY <1>1, <1>2 DEF Row
<1>4. Replaces(u, w, r)
  BY <1>1, <1>2 DEF TypeOK, SetBurnOffline, Replaces
<1> QED BY <1>3, <1>4

\* A setting that arrives and is later than the one held.
LEMMA ArrivedRow ==
    ASSUME TypeOK, NEW n, n.from \in Users, n.to \in Users, n.secs \in Settings,
           n.at \in Time, HandleOptions(n),
           n.from \in book[n.to] /\ n.at > row[n.to][n.from].at
    PROVE  \E r \in Row : /\ Replaces(n.to, n.from, r)
                          /\ r.secs = n.secs /\ r.at = n.at
<1>1. row[n.to][n.from] \in Row
  BY DEF TypeOK
<1>2. PICK r : r = [[row[n.to][n.from] EXCEPT !.secs = n.secs] EXCEPT !.at = n.at]
  OBVIOUS
<1>3. r \in Row /\ r.secs = n.secs /\ r.at = n.at
  BY <1>1, <1>2 DEF Row
<1>4. Replaces(n.to, n.from, r)
  BY <1>1, <1>2 DEF TypeOK, HandleOptions, Replaces
<1> QED BY <1>3, <1>4

\* A profile changes what a row shows, never its burn setting.
LEMMA ProfileRow ==
    ASSUME TypeOK, NEW u \in Users, NEW w \in Users, NEW g, g.by = u, g.of = w,
           g.version \in Nat, NEW avatar \in Nat, TakeProfile(g, avatar), w \in book[u]
    PROVE  \E r \in Row : /\ Replaces(u, w, r)
                          /\ r.secs = row[u][w].secs /\ r.at = row[u][w].at
<1>1. row[u][w] \in Row
  BY DEF TypeOK
<1>2. PICK r : r = [[[row[u][w] EXCEPT !.name = g.version] EXCEPT !.version = g.version]
                      EXCEPT !.avatar = avatar]
  OBVIOUS
<1>3. r \in Row /\ r.secs = row[u][w].secs /\ r.at = row[u][w].at
  BY <1>1, <1>2 DEF Row
<1>4. Replaces(u, w, r)
  BY <1>1, <1>2 DEF TypeOK, TakeProfile, Replaces
<1> QED BY <1>3, <1>4

LEMMA NoteTyped ==
    ASSUME NEW type \in {"message", "request", "response"}, NEW u \in Users,
           NEW w \in Users, NEW v \in Nat
    PROVE  Pack(type, u, w, v) \in Note
BY DEF Pack, Note

LEMMA PacketTyped ==
    ASSUME TypeOK, NEW n \in net
    PROVE  /\ n.from \in Users /\ n.to \in Users
           /\ n.type = "options" => n.secs \in Settings /\ n.at \in Time
           /\ n.type # "options" => n.version \in Nat
BY DEF TypeOK, Note, Options

LEMMA InitTyped == Init => TypeOK
<1> SUFFICES ASSUME Init PROVE TypeOK
  OBVIOUS
<1>1. row \in [Users -> [Users -> Row]]
  BY BlankTyped DEF Init
<1>2. book \in [Users -> SUBSET Users] /\ clock \in [Users -> Time]
  BY BoundAssumption DEF Init, Time
<1>3. profile \in [Users -> Nat \ {0}]
  BY DEF Init
<1> QED BY <1>1, <1>2, <1>3 DEF Init, TypeOK

LEMMA SetBurnRow ==
    ASSUME TypeOK, NEW u \in Users, NEW w \in Users, NEW secs \in Settings,
           NEW t \in Time, SetBurn(u, w, secs, t)
    PROVE  /\ row' \in [Users -> [Users -> Row]]
           /\ row'[u][w].secs = secs /\ row'[u][w].at = t
           /\ \A a \in Users, b \in Users : a # u \/ b # w => row'[a][b] = row[a][b]
           /\ net' = net \cup {OptionsOf(u, w, row'[u][w])}
<1>1. row[u][w] \in Row
  BY DEF TypeOK
<1>2. PICK r : /\ r = [row[u][w] EXCEPT !.secs = secs, !.at = t]
               /\ Replaces(u, w, r) /\ net' = net \cup {OptionsOf(u, w, r)}
  BY DEF SetBurn, Stamp, Replaces
<1>3. r \in Row /\ r.secs = secs /\ r.at = t
  BY <1>1, <1>2 DEF Row
<1>4. /\ row' \in [Users -> [Users -> Row]] /\ row'[u][w] = r
      /\ \A a \in Users, b \in Users : a # u \/ b # w => row'[a][b] = row[a][b]
  BY <1>2, <1>3, RowReplaced
<1> QED BY <1>2, <1>3, <1>4

LEMMA TypedByPairs ==
    ASSUME TypeOK, NEW u \in Users, NEW w \in Users, PairStep(u, w)
    PROVE  TypeOK'
<1> USE DEF store, answers
<1>1. {u, w} \in SUBSET Users
  OBVIOUS
<1>2. CASE AddContact(u, w) \/ DeleteContact(u, w)
  <2>1. Replaces(u, w, Blank)
    BY <1>2 DEF AddContact, DeleteContact, Replaces
  <2>2. row' \in [Users -> [Users -> Row]]
    BY <2>1, BlankTyped, RowReplaced
  <2>3. book' \in [Users -> SUBSET Users]
    BY <1>2 DEF AddContact, DeleteContact, TypeOK
  <2>4. apart' \subseteq SUBSET Users
    BY <1>1, <1>2 DEF AddContact, DeleteContact, Wiped, TypeOK
  <2> QED BY <1>2, <2>2, <2>3, <2>4 DEF AddContact, DeleteContact, Spend, TypeOK
<1>3. CASE Rename(u, w)
  <2>1. row' \in [Users -> [Users -> Row]]
    BY <1>3, NameSet DEF Rename, Unnames
  <2> QED BY <1>3, <2>1 DEF Rename, Spend, TypeOK
<1>4. CASE WriteMessage(u, w)
  <2>1. profile[u] \in Nat
    BY DEF TypeOK
  <2>2. net' \subseteq Note \cup Options
    BY <1>4, <2>1, NoteTyped DEF WriteMessage, TypeOK
  <2> QED BY <1>4, <2>2 DEF WriteMessage, TypeOK
<1>5. ASSUME NEW secs \in Settings, NEW t \in Time, SetBurn(u, w, secs, t) PROVE TypeOK'
  <2>1. /\ row' \in [Users -> [Users -> Row]]
        /\ row'[u][w].secs = secs /\ row'[u][w].at = t
        /\ net' = net \cup {OptionsOf(u, w, row'[u][w])}
    BY <1>5, SetBurnRow
  <2>2. OptionsOf(u, w, row'[u][w]) \in Options
    BY <2>1 DEF OptionsOf, Options
  <2>3. apart' \subseteq SUBSET Users
    BY <1>1, <1>5 DEF SetBurn, TypeOK
  <2>4. clock' \in [Users -> Time]
    BY <1>5 DEF SetBurn, TypeOK
  <2> QED BY <1>5, <2>1, <2>2, <2>3, <2>4 DEF SetBurn, Spend, TypeOK
<1>6. ASSUME NEW secs \in Settings, NEW t \in Time, SetBurnOffline(u, w, secs, t)
      PROVE  TypeOK'
  <2>0. \E r \in Row : Replaces(u, w, r)
    BY <1>6, OfflineRow
  <2>1. row' \in [Users -> [Users -> Row]]
    BY <2>0, RowReplaced
  <2>2. apart' \subseteq SUBSET Users
    BY <1>1, <1>6 DEF SetBurnOffline, TypeOK
  <2>3. clock' \in [Users -> Time]
    BY <1>6 DEF SetBurnOffline, TypeOK
  <2>4. UNCHANGED <<book, profile, net, answers>> /\ tally' \in Nat
    BY <1>6 DEF SetBurnOffline, Spend, TypeOK
  <2> QED BY <2>1, <2>2, <2>3, <2>4 DEF TypeOK
<1> QED BY <1>2, <1>3, <1>4, <1>5, <1>6 DEF PairStep

LEMMA TypedByPackets ==
    ASSUME TypeOK, NEW n \in net, PacketStep(n)
    PROVE  TypeOK'
<1> USE DEF store, answers
<1>1. n.from \in Users /\ n.to \in Users
  BY PacketTyped
<1>2. row[n.to][n.from] \in Row
  BY <1>1 DEF TypeOK
<1>3. {n.to, n.from} \in SUBSET Users /\ {n.from, n.to} \in SUBSET Users
  BY <1>1
<1>4. CASE HandleOptions(n)
  <2>0. row' = row \/ \E r \in Row : Replaces(n.to, n.from, r)
    <3>1. CASE n.from \in book[n.to] /\ n.at > row[n.to][n.from].at
      <4>1. n.secs \in Settings /\ n.at \in Time
        BY <1>4, PacketTyped DEF HandleOptions
      <4> QED BY <1>1, <1>4, <3>1, <4>1, ArrivedRow
    <3>2. CASE ~(n.from \in book[n.to] /\ n.at > row[n.to][n.from].at)
      BY <1>4, <3>2 DEF HandleOptions
    <3> QED BY <3>1, <3>2
  <2>1. row' \in [Users -> [Users -> Row]]
    BY <1>1, <2>0, RowReplaced DEF TypeOK
  <2>2. apart' \subseteq SUBSET Users
    BY <1>3, <1>4 DEF HandleOptions, TypeOK
  <2> QED BY <1>4, <2>1, <2>2 DEF HandleOptions, TypeOK
<1>5. CASE HandleMessage(n)
  <2>1. row[n.to][n.from].version \in Nat
    BY <1>2 DEF Row
  <2>2. Pack("request", n.to, n.from, row[n.to][n.from].version) \in Note
    BY <1>1, <2>1, NoteTyped
  <2> QED BY <1>5, <2>2 DEF HandleMessage, TypeOK
<1>6. CASE HandleRequest(n)
  <2>1. Pack("response", n.to, n.from, profile[n.to]) \in Note
    BY <1>1, NoteTyped DEF TypeOK
  <2>2. throttled' \subseteq Users \X Users
    BY <1>1, <1>6 DEF HandleRequest, TypeOK
  <2> QED BY <1>6, <2>1, <2>2 DEF HandleRequest, TypeOK
<1>7. CASE HandleResponse(n)
  <2>1. n.version \in Nat
    BY <1>7, PacketTyped DEF HandleResponse
  <2>2. resizing' \subseteq Resize
    BY <1>1, <1>7, <2>1 DEF HandleResponse, Resize, TypeOK
  <2> QED BY <1>7, <2>2 DEF HandleResponse, TypeOK
<1>8. CASE Lose(n)
  <2>1. apart' \subseteq SUBSET Users
    BY <1>3, <1>8 DEF Lose, TypeOK
  <2> QED BY <1>8, <2>1 DEF Lose, Spend, TypeOK
<1> QED BY <1>4, <1>5, <1>6, <1>7, <1>8 DEF PacketStep

\* A resize that ends or fails.
LEMMA TakeProfileRow ==
    ASSUME TypeOK, NEW g \in resizing, FinishResponse(g) \/ ResizeFails(g)
    PROVE  /\ row' \in [Users -> [Users -> Row]]
           /\ \A x \in Users, y \in Users : /\ row'[x][y].secs = row[x][y].secs
                                            /\ row'[x][y].at = row[x][y].at
<1>1. g.by \in Users /\ g.of \in Users /\ g.version \in Nat
  BY DEF TypeOK, Resize
<1>2. row[g.by][g.of].avatar \in Nat
  BY <1>1 DEF TypeOK, Row
<1>3. CASE UNCHANGED row
  BY <1>3 DEF TypeOK
<1>4. PICK avatar \in Nat : TakeProfile(g, avatar)
  BY <1>1, <1>2 DEF FinishResponse, ResizeFails
<1>5. CASE g.of \in book[g.by]
  <2>1. PICK r \in Row : /\ Replaces(g.by, g.of, r)
                         /\ r.secs = row[g.by][g.of].secs /\ r.at = row[g.by][g.of].at
    BY <1>1, <1>4, <1>5, ProfileRow
  <2>2. /\ row' \in [Users -> [Users -> Row]] /\ row'[g.by][g.of] = r
        /\ \A a \in Users, b \in Users : a # g.by \/ b # g.of => row'[a][b] = row[a][b]
    BY <1>1, <2>1, RowReplaced
  <2> HIDE <2>1
  <2>3. r.secs = row[g.by][g.of].secs /\ r.at = row[g.by][g.of].at
    BY <2>1
  <2> QED BY <1>1, <2>2, <2>3
<1>6. CASE g.of \notin book[g.by]
  BY <1>3, <1>4, <1>6 DEF TakeProfile
<1> QED BY <1>5, <1>6

LEMMA TypeStep == TypeOK /\ [Next]_vars => TypeOK'
<1> SUFFICES ASSUME TypeOK, [Next]_vars PROVE TypeOK'
  OBVIOUS
<1> USE DEF store, answers
<1>1. ASSUME NEW u \in Users, EditProfile(u) \/ Restart(u) PROVE TypeOK'
  <2>1. profile' \in [Users -> Nat \ {0}]
    BY <1>1 DEF EditProfile, Restart, TypeOK
  <2> QED BY <1>1, <2>1 DEF EditProfile, Restart, Spend, TypeOK
<1>2. ASSUME NEW p \in throttled, ThrottleEnds(p) PROVE TypeOK'
  BY <1>2 DEF ThrottleEnds, TypeOK
<1>3. ASSUME NEW g \in resizing, FinishResponse(g) \/ ResizeFails(g) PROVE TypeOK'
  <2>1. row' \in [Users -> [Users -> Row]]
    BY <1>3, TakeProfileRow
  <2>2. /\ UNCHANGED <<book, profile, clock, net, throttled, apart>>
        /\ resizing' = resizing \ {g}
        /\ tally' = tally \/ Spend
    BY <1>3 DEF FinishResponse, ResizeFails, TakeProfile
  <2>3. tally' \in Nat
    BY <2>2 DEF Spend, TypeOK
  <2> QED BY <2>1, <2>2, <2>3 DEF TypeOK
<1>4. CASE UNCHANGED vars
  BY <1>4 DEF vars, TypeOK
<1> QED BY <1>1, <1>2, <1>3, <1>4, TypedByPairs, TypedByPackets DEF Next

\* The contact tables, and what travels between them, are type correct.
THEOREM TypeCorrect == Spec => []TypeOK
<1>1. TypeOK /\ [Next]_vars => TypeOK'
  BY TypeStep
<1> QED BY <1>1, InitTyped, PTL DEF Spec

-----------------------------------------------------------------------------
(* The burn setting. *)

Together(u, w) == u # w /\ {u, w} \notin apart
At(u, w) == row[u][w].at
Secs(u, w) == row[u][w].secs

\* Nothing on its way is later than what its sender holds.
NoneAhead ==
    \A n \in net :
        n.type = "options" /\ Together(n.from, n.to) =>
            /\ n.at <= At(n.from, n.to)
            /\ n.at = At(n.from, n.to) => n.secs = Secs(n.from, n.to)
\* The later setting is on its way to the other end.
LaterComes ==
    \A u, w \in Users :
        Together(u, w) /\ At(u, w) > At(w, u) => OptionsOf(u, w, row[u][w]) \in net
SameAtSameSecs ==
    \A u, w \in Users : Together(u, w) /\ At(u, w) = At(w, u) => Secs(u, w) = Secs(w, u)
Unset == \A u, w \in Users : At(u, w) = 0 => Secs(u, w) = 0
Settling == NoneAhead /\ LaterComes /\ SameAtSameSecs /\ Unset

LEMMA AtTyped == TypeOK => \A u, w \in Users : At(u, w) \in Nat
BY BoundAssumption DEF TypeOK, Row, Time, At

LEMMA SettlingSuffices == TypeOK /\ Settling => BurnAgrees
<1> SUFFICES ASSUME TypeOK, Settling, NEW u \in Users, NEW w \in Users, Together(u, w),
                    ~Changing(u, w)
             PROVE  Burn(u, w) = Burn(w, u)
  BY DEF BurnAgrees, Together
<1>1. {u, w} = {w, u} /\ Together(w, u)
  BY DEF Together
<1>2. \A a, b : OptionsOf(a, b, row[a][b]).type = "options"
             /\ OptionsOf(a, b, row[a][b]).from = a /\ OptionsOf(a, b, row[a][b]).to = b
  BY DEF OptionsOf
<1>3. ~(At(u, w) > At(w, u)) /\ ~(At(w, u) > At(u, w))
  BY <1>1, <1>2 DEF Settling, LaterComes, Changing
<1>4. At(u, w) = At(w, u)
  BY <1>3, AtTyped
<1> QED BY <1>4 DEF Settling, SameAtSameSecs, Burn, At, Secs

\* A step that touches no setting, on its way or held.
LEMMA SettlingKept ==
    ASSUME Settling, apart \subseteq apart',
           \A u, w \in Users : At(u, w)' = At(u, w) /\ Secs(u, w)' = Secs(u, w),
           \A n \in net' : n.type = "options" => n \in net,
           \A n \in net : n.type = "options" => n \in net', TypeOK
    PROVE  Settling'
<1>1. \A u, w : Together(u, w)' => Together(u, w)
  BY DEF Together
<1>2. NoneAhead'
  BY <1>1, PacketTyped DEF Settling, NoneAhead
<1>3. LaterComes'
  <2> SUFFICES ASSUME NEW u \in Users, NEW w \in Users, Together(u, w)',
                      At(u, w)' > At(w, u)'
               PROVE  OptionsOf(u, w, row'[u][w]) \in net'
    BY DEF LaterComes
  <2>1. OptionsOf(u, w, row[u][w]) \in net
    BY <1>1 DEF Settling, LaterComes
  <2>2. OptionsOf(u, w, row'[u][w]) = OptionsOf(u, w, row[u][w])
    BY DEF OptionsOf, At, Secs
  <2> QED BY <2>1, <2>2 DEF OptionsOf
<1>4. SameAtSameSecs' /\ Unset'
  BY <1>1 DEF Settling, SameAtSameSecs, Unset
<1> QED BY <1>2, <1>3, <1>4 DEF Settling

\* A new setting, stamped later than the last and not with the other end's stamp.
LEMMA SettlingBySet ==
    ASSUME TypeOK, Settling, NEW u \in Users, NEW w \in Users, NEW secs \in Settings,
           NEW t \in Time, SetBurn(u, w, secs, t)
    PROVE  Settling'
<1> DEFINE p == OptionsOf(u, w, row'[u][w])
<1>1. /\ At(u, w)' = t /\ Secs(u, w)' = secs
      /\ \A a, b \in Users : a # u \/ b # w =>
             row'[a][b] = row[a][b] /\ At(a, b)' = At(a, b) /\ Secs(a, b)' = Secs(a, b)
  BY SetBurnRow DEF At, Secs
<1>2. /\ u # w /\ t > 0 /\ apart \subseteq apart'
      /\ t <= At(u, w) \/ t = At(w, u) => {u, w} \in apart'
  BY DEF SetBurn, At
<1>3. \A a, b : Together(a, b)' => Together(a, b)
  BY <1>2 DEF Together
<1>4. Together(u, w)' \/ Together(w, u)' => t > At(u, w) /\ t # At(w, u)
  <2>1. {w, u} = {u, w}
    OBVIOUS
  <2>2. Together(u, w)' \/ Together(w, u)' => {u, w} \notin apart'
    BY <2>1 DEF Together
  <2>3. t \in Nat /\ At(u, w) \in Nat
    BY AtTyped, BoundAssumption DEF Time
  <2> QED BY <1>2, <2>2, <2>3
<1>5. net' = net \cup {p} /\ p.type = "options" /\ p.from = u /\ p.to = w
      /\ p.secs = secs /\ p.at = t
  BY SetBurnRow DEF OptionsOf
<1> HIDE DEF p
<1>6. \A a, b \in Users : At(a, b) \in Nat
  BY AtTyped
<1>7. t \in Nat
  BY BoundAssumption DEF Time
<1>8. NoneAhead'
  <2> SUFFICES ASSUME NEW n \in net', n.type = "options", Together(n.from, n.to)'
               PROVE  /\ n.at <= At(n.from, n.to)'
                      /\ n.at = At(n.from, n.to)' => n.secs = Secs(n.from, n.to)'
    BY DEF NoneAhead
  <2>1. CASE n = p
    BY <1>1, <1>5, <1>7, <2>1
  <2>2. CASE n # p
    <3>1. n \in net /\ n.from \in Users /\ n.to \in Users
      BY <1>5, <2>2, PacketTyped
    <3>2. n.at \in Nat
      BY <3>1, PacketTyped, BoundAssumption DEF Time
    <3>3. /\ n.at <= At(n.from, n.to)
          /\ n.at = At(n.from, n.to) => n.secs = Secs(n.from, n.to)
      BY <1>3, <3>1 DEF Settling, NoneAhead
    <3>4. CASE n.from = u /\ n.to = w
      BY <1>1, <1>4, <1>6, <1>7, <3>2, <3>3, <3>4
    <3>5. CASE ~(n.from = u /\ n.to = w)
      BY <1>1, <3>1, <3>3, <3>5
    <3> QED BY <3>4, <3>5
  <2> QED BY <2>1, <2>2
<1>9. LaterComes'
  <2> SUFFICES ASSUME NEW a \in Users, NEW b \in Users, Together(a, b)',
                      At(a, b)' > At(b, a)'
               PROVE  OptionsOf(a, b, row'[a][b]) \in net'
    BY DEF LaterComes
  <2>1. CASE a = u /\ b = w
    BY <1>5, <2>1 DEF p
  <2>2. CASE ~(a = u /\ b = w)
    <3>1. At(a, b) > At(b, a)
      <4>1. CASE a = w /\ b = u
        BY <1>1, <1>2, <1>4, <1>6, <1>7, <4>1
      <4>2. CASE ~(a = w /\ b = u)
        BY <1>1, <2>2, <4>2
      <4> QED BY <4>1, <4>2
    <3>2. OptionsOf(a, b, row[a][b]) \in net
      BY <1>3, <3>1 DEF Settling, LaterComes
    <3>3. row'[a][b] = row[a][b]
      BY <1>1, <2>2
    <3> QED BY <1>5, <3>2, <3>3
  <2> QED BY <2>1, <2>2
<1>10. SameAtSameSecs'
  <2> SUFFICES ASSUME NEW a \in Users, NEW b \in Users, Together(a, b)',
                      At(a, b)' = At(b, a)'
               PROVE  Secs(a, b)' = Secs(b, a)'
    BY DEF SameAtSameSecs
  <2>1. ~(a = u /\ b = w) /\ ~(a = w /\ b = u)
    BY <1>1, <1>2, <1>4
  <2> QED BY <1>1, <1>3, <2>1 DEF Settling, SameAtSameSecs
<1>11. Unset'
  <2>1. t # 0
    BY <1>2, <1>7
  <2> QED BY <1>1, <2>1 DEF Settling, Unset
<1> QED BY <1>8, <1>9, <1>10, <1>11 DEF Settling

\* A setting that goes without being stored, because it is not later than the one
\* held, or by accident.
LEMMA SettlingByRemoval ==
    ASSUME TypeOK, Settling, NEW n \in net, n.type = "options", net' = net \ {n},
           UNCHANGED row, apart \subseteq apart',
           Together(n.from, n.to)' => n.at <= At(n.to, n.from)
    PROVE  Settling'
<1>1. \A a, b : At(a, b)' = At(a, b) /\ Secs(a, b)' = Secs(a, b)
  BY DEF At, Secs
<1>2. \A a, b : Together(a, b)' => Together(a, b)
  BY DEF Together
<1>3. NoneAhead' /\ SameAtSameSecs' /\ Unset'
  BY <1>1, <1>2 DEF Settling, NoneAhead, SameAtSameSecs, Unset
<1>4. LaterComes'
  <2> SUFFICES ASSUME NEW a \in Users, NEW b \in Users, Together(a, b)',
                      At(a, b) > At(b, a)
               PROVE  OptionsOf(a, b, row[a][b]) \in net'
    BY <1>1 DEF LaterComes
  <2>1. OptionsOf(a, b, row[a][b]) \in net
    BY <1>2 DEF Settling, LaterComes
  <2>2. OptionsOf(a, b, row[a][b]) # n
    <3>1. SUFFICES ASSUME OptionsOf(a, b, row[a][b]) = n PROVE FALSE
      OBVIOUS
    <3>2. n.from = a /\ n.to = b /\ n.at = At(a, b)
      BY <3>1 DEF OptionsOf, At
    <3>3. At(a, b) \in Nat /\ At(b, a) \in Nat
      BY AtTyped
    <3> QED BY <3>2, <3>3
  <2> QED BY <2>1, <2>2
<1> QED BY <1>3, <1>4 DEF Settling

\* A later setting that is stored.
LEMMA SettlingByArrival ==
    ASSUME TypeOK, Settling, NEW n \in net, n.type = "options", net' = net \ {n},
           NEW r \in Row, Replaces(n.to, n.from, r),
           r.secs = n.secs, r.at = n.at, n.at > At(n.to, n.from), UNCHANGED apart
    PROVE  Settling'
<1>0. n.to \in Users /\ n.from \in Users /\ n.at \in Nat
  BY PacketTyped, BoundAssumption DEF Time
<1>1. /\ At(n.to, n.from)' = n.at /\ Secs(n.to, n.from)' = n.secs
      /\ \A a, b \in Users : a # n.to \/ b # n.from =>
             row'[a][b] = row[a][b] /\ At(a, b)' = At(a, b) /\ Secs(a, b)' = Secs(a, b)
  BY <1>0, RowReplaced DEF At, Secs
<1>2. \A a, b : Together(a, b)' => Together(a, b)
  BY DEF Together
<1>3. \A a, b \in Users : At(a, b) \in Nat
  BY AtTyped
<1>4. \A a, b : Together(a, b) => Together(b, a) /\ a # b
  <2>1. \A a, b : {a, b} = {b, a}
    OBVIOUS
  <2> QED BY <2>1 DEF Together
<1>5. Together(n.from, n.to) =>
          /\ n.at <= At(n.from, n.to)
          /\ n.at = At(n.from, n.to) => n.secs = Secs(n.from, n.to)
  BY DEF Settling, NoneAhead
<1> HIDE DEF Together
<1>6. NoneAhead'
  <2> SUFFICES ASSUME NEW m \in net', m.type = "options", Together(m.from, m.to)'
               PROVE  /\ m.at <= At(m.from, m.to)'
                      /\ m.at = At(m.from, m.to)' => m.secs = Secs(m.from, m.to)'
    BY DEF NoneAhead
  <2>1. m \in net /\ m.from \in Users /\ m.to \in Users /\ m.at \in Nat
    BY PacketTyped, BoundAssumption DEF Time
  <2>2. /\ m.at <= At(m.from, m.to)
        /\ m.at = At(m.from, m.to) => m.secs = Secs(m.from, m.to)
    BY <1>2, <2>1 DEF Settling, NoneAhead
  <2>3. CASE m.from = n.to /\ m.to = n.from
    BY <1>0, <1>1, <1>3, <2>1, <2>2, <2>3
  <2>4. CASE ~(m.from = n.to /\ m.to = n.from)
    BY <1>1, <2>1, <2>2, <2>4
  <2> QED BY <2>3, <2>4
<1>7. LaterComes'
  <2> SUFFICES ASSUME NEW a \in Users, NEW b \in Users, Together(a, b)',
                      At(a, b)' > At(b, a)'
               PROVE  OptionsOf(a, b, row'[a][b]) \in net'
    BY DEF LaterComes
  <2>1. Together(a, b) /\ a # b
    BY <1>2, <1>4
  <2>2. ~(a = n.to /\ b = n.from)
    BY <1>0, <1>1, <1>3, <1>4, <1>5, <2>1
  <2>3. At(a, b) > At(b, a)
    <3>1. CASE a = n.from /\ b = n.to
      BY <1>0, <1>1, <1>3, <2>1, <2>2, <3>1
    <3>2. CASE ~(a = n.from /\ b = n.to)
      BY <1>1, <2>2, <3>2
    <3> QED BY <3>1, <3>2
  <2>4. OptionsOf(a, b, row[a][b]) \in net /\ row'[a][b] = row[a][b]
    BY <1>1, <2>1, <2>2, <2>3 DEF Settling, LaterComes
  <2>5. OptionsOf(a, b, row[a][b]) # n
    <3> SUFFICES ASSUME OptionsOf(a, b, row[a][b]) = n PROVE FALSE
      OBVIOUS
    <3>1. n.from = a /\ n.to = b /\ n.at = At(a, b)
      BY DEF OptionsOf, At
    <3>2. At(b, a)' = n.at /\ At(a, b)' = At(a, b)
      BY <1>1, <2>2, <3>1
    <3> QED BY <1>0, <3>1, <3>2
  <2> QED BY <2>4, <2>5
<1>8. SameAtSameSecs'
  <2> SUFFICES ASSUME NEW a \in Users, NEW b \in Users, Together(a, b)',
                      At(a, b)' = At(b, a)'
               PROVE  Secs(a, b)' = Secs(b, a)'
    BY DEF SameAtSameSecs
  <2>1. Together(a, b) /\ a # b
    BY <1>2, <1>4
  <2>2. CASE a = n.to /\ b = n.from
    BY <1>1, <1>4, <1>5, <2>1, <2>2
  <2>3. CASE a = n.from /\ b = n.to
    BY <1>1, <1>5, <2>1, <2>3
  <2>4. CASE ~(a = n.to /\ b = n.from) /\ ~(a = n.from /\ b = n.to)
    BY <1>1, <2>1, <2>4 DEF Settling, SameAtSameSecs
  <2> QED BY <2>2, <2>3, <2>4
<1>9. Unset'
  <2>1. n.at # 0
    BY <1>0, <1>3
  <2> QED BY <1>0, <1>1, <2>1 DEF Settling, Unset
<1> QED BY <1>6, <1>7, <1>8, <1>9 DEF Settling

\* A contact that is deleted or added again had no setting, or the two are apart.
LEMMA SettlingByWipe ==
    ASSUME TypeOK, Settling, NEW u \in Users, NEW w \in Users,
           Replaces(u, w, Blank), Wiped(u, w), UNCHANGED net
    PROVE  Settling'
<1>1. /\ row'[u][w] = Blank
      /\ \A a, b \in Users : a # u \/ b # w => row'[a][b] = row[a][b]
  BY BlankTyped, RowReplaced
<1>2. Blank.at = 0 /\ Blank.secs = 0
  BY DEF Blank
<1>3. apart \subseteq apart'
  BY DEF Wiped
<1>4. CASE At(u, w) = 0
  <2>1. \A a, b \in Users : At(a, b)' = At(a, b) /\ Secs(a, b)' = Secs(a, b)
    BY <1>1, <1>2, <1>4 DEF At, Secs, Settling, Unset
  <2> QED BY <1>3, <2>1, SettlingKept
<1>5. CASE At(u, w) # 0
  <2>1. {u, w} \in apart'
    BY <1>5 DEF Wiped, At
  <2>2. \A a, b : Together(a, b)' => Together(a, b) /\ ~(a = u /\ b = w) /\ ~(a = w /\ b = u)
    <3>1. {w, u} = {u, w}
      OBVIOUS
    <3> QED BY <1>3, <2>1, <3>1 DEF Together
  <2>3. \A a, b \in Users : ~(a = u /\ b = w) =>
            row'[a][b] = row[a][b] /\ At(a, b)' = At(a, b) /\ Secs(a, b)' = Secs(a, b)
    BY <1>1 DEF At, Secs
  <2>4. At(u, w)' = 0 /\ Secs(u, w)' = 0
    BY <1>1, <1>2 DEF At, Secs
  <2>5. NoneAhead'
    BY <2>2, <2>3, PacketTyped DEF Settling, NoneAhead
  <2>6. LaterComes'
    BY <2>2, <2>3 DEF Settling, LaterComes
  <2>7. SameAtSameSecs'
    BY <2>2, <2>3 DEF Settling, SameAtSameSecs
  <2>8. Unset'
    BY <2>3, <2>4 DEF Settling, Unset
  <2> QED BY <2>5, <2>6, <2>7, <2>8 DEF Settling
<1> QED BY <1>4, <1>5

\* A setting made without a connection is known to set the two apart.
LEMMA SettlingByOffline ==
    ASSUME TypeOK, Settling, NEW u \in Users, NEW w \in Users, NEW secs \in Settings,
           NEW t \in Time, SetBurnOffline(u, w, secs, t)
    PROVE  Settling'
<1>0. PICK r \in Row : Replaces(u, w, r) /\ r.secs = secs /\ r.at = t
  BY OfflineRow
<1>1. /\ row'[u][w] = r
      /\ \A a, b \in Users : a # u \/ b # w => row'[a][b] = row[a][b]
  BY <1>0, RowReplaced
<1>2. t > 0 /\ apart \subseteq apart' /\ {u, w} \in apart' /\ UNCHANGED net
  BY DEF SetBurnOffline
<1>3. \A a, b : Together(a, b)' => Together(a, b) /\ ~(a = u /\ b = w) /\ ~(a = w /\ b = u)
  <2>1. {w, u} = {u, w}
    OBVIOUS
  <2> QED BY <1>2, <2>1 DEF Together
<1>4. \A a, b \in Users : ~(a = u /\ b = w) =>
          row'[a][b] = row[a][b] /\ At(a, b)' = At(a, b) /\ Secs(a, b)' = Secs(a, b)
  BY <1>1 DEF At, Secs
<1>5. At(u, w)' # 0
  BY <1>0, <1>1, <1>2, BoundAssumption DEF At, Time
<1>6. NoneAhead'
  BY <1>2, <1>3, <1>4, PacketTyped DEF Settling, NoneAhead
<1>7. LaterComes'
  BY <1>2, <1>3, <1>4 DEF Settling, LaterComes
<1>8. SameAtSameSecs'
  BY <1>3, <1>4 DEF Settling, SameAtSameSecs
<1>9. Unset'
  BY <1>4, <1>5 DEF Settling, Unset
<1> QED BY <1>6, <1>7, <1>8, <1>9 DEF Settling

LEMMA SettlingByPairs ==
    ASSUME TypeOK, Settling, NEW u \in Users, NEW w \in Users, PairStep(u, w)
    PROVE  Settling'
<1> USE DEF store, answers
<1>1. CASE AddContact(u, w) \/ DeleteContact(u, w)
  BY <1>1, SettlingByWipe DEF AddContact, DeleteContact, Replaces
<1>2. CASE Rename(u, w)
  <2>1. \A a, b \in Users : At(a, b)' = At(a, b) /\ Secs(a, b)' = Secs(a, b)
    BY <1>2, NameSet DEF Rename, Unnames, At, Secs
  <2> QED BY <1>2, <2>1, SettlingKept DEF Rename
<1>3. CASE WriteMessage(u, w)
  BY <1>3, SettlingKept DEF WriteMessage, Pack, At, Secs
<1> QED BY <1>1, <1>2, <1>3, SettlingBySet, SettlingByOffline DEF PairStep

LEMMA SettlingByPackets ==
    ASSUME TypeOK, Settling, NEW n \in net, PacketStep(n)
    PROVE  Settling'
<1> USE DEF store, answers
<1>0. n.from \in Users /\ n.to \in Users
  BY PacketTyped
<1>1. CASE HandleOptions(n)
  <2>0. n.type = "options" /\ net' = net \ {n} /\ apart \subseteq apart'
    BY <1>1 DEF HandleOptions
  <2>1. CASE n.from \in book[n.to] /\ n.at > row[n.to][n.from].at
    <3>1. n.secs \in Settings /\ n.at \in Time
      BY <2>0, PacketTyped
    <3>2. PICK r \in Row : /\ Replaces(n.to, n.from, r)
                           /\ r.secs = n.secs /\ r.at = n.at
      BY <1>0, <1>1, <2>1, <3>1, ArrivedRow, ZenonT(30)
    <3>3. UNCHANGED apart
      BY <1>1, <2>1 DEF HandleOptions
    <3> QED BY <2>0, <2>1, <3>2, <3>3, SettlingByArrival DEF At
  <2>2. CASE n.from \in book[n.to] /\ ~(n.at > row[n.to][n.from].at)
    <3>1. UNCHANGED row
      BY <1>1, <2>2 DEF HandleOptions
    <3>2. n.at <= At(n.to, n.from)
      <4>1. n.at \in Nat /\ At(n.to, n.from) \in Nat
        BY <1>0, <2>0, AtTyped, PacketTyped, BoundAssumption DEF Time
      <4> QED BY <2>2, <4>1 DEF At
    <3> QED BY <2>0, <3>1, <3>2, SettlingByRemoval
  <2>3. CASE n.from \notin book[n.to]
    <3>1. UNCHANGED row /\ {n.to, n.from} \in apart'
      BY <1>1, <2>3 DEF HandleOptions
    <3>2. ~Together(n.from, n.to)'
      <4>1. {n.to, n.from} = {n.from, n.to}
        OBVIOUS
      <4> QED BY <3>1, <4>1 DEF Together
    <3> QED BY <2>0, <3>1, <3>2, SettlingByRemoval
  <2> QED BY <2>1, <2>2, <2>3
<1>2. CASE Lose(n) /\ n.type = "options"
  <2>1. ~Together(n.from, n.to)' /\ apart \subseteq apart'
    BY <1>2 DEF Lose, Together
  <2> QED BY <1>2, <2>1, SettlingByRemoval DEF Lose
<1>3. CASE n.type # "options"
  <2>1. UNCHANGED <<row, apart>>
    BY <1>3 DEF PacketStep, HandleOptions, HandleMessage, HandleRequest, HandleResponse,
                Lose
  <2>2. PICK x : x.type # "options" /\ net' \in {net, net \ {n}, (net \ {n}) \cup {x}}
    BY <1>3 DEF PacketStep, HandleOptions, HandleMessage, HandleRequest, HandleResponse,
                Lose, Pack
  <2>3. /\ \A m \in net' : m.type = "options" => m \in net
        /\ \A m \in net : m.type = "options" => m \in net'
    BY <1>3, <2>2
  <2> QED BY <2>1, <2>3, SettlingKept DEF At, Secs
<1> QED BY <1>1, <1>2, <1>3
        DEF PacketStep, HandleMessage, HandleRequest, HandleResponse

LEMMA SettlingStep == TypeOK /\ Settling /\ [Next]_vars => Settling'
<1> SUFFICES ASSUME TypeOK, Settling, [Next]_vars PROVE Settling'
  OBVIOUS
<1> USE DEF store, answers
<1>1. CASE UNCHANGED <<row, net, apart>>
  BY <1>1, SettlingKept DEF At, Secs
<1>2. ASSUME NEW u \in Users, EditProfile(u) \/ Restart(u) PROVE Settling'
  BY <1>1, <1>2 DEF EditProfile, Restart
<1>3. ASSUME NEW p \in throttled, ThrottleEnds(p) PROVE Settling'
  BY <1>1, <1>3 DEF ThrottleEnds
<1>4. ASSUME NEW g \in resizing, FinishResponse(g) \/ ResizeFails(g) PROVE Settling'
  <2>1. \A a, b \in Users : At(a, b)' = At(a, b) /\ Secs(a, b)' = Secs(a, b)
    BY <1>4, TakeProfileRow DEF At, Secs
  <2> QED BY <1>4, <2>1, SettlingKept DEF FinishResponse, ResizeFails, TakeProfile
<1>5. CASE UNCHANGED vars
  BY <1>1, <1>5 DEF vars
<1> QED BY <1>2, <1>3, <1>4, <1>5, SettlingByPairs, SettlingByPackets DEF Next

LEMMA InitSettling == Init => Settling
BY DEF Init, Settling, NoneAhead, LaterComes, SameAtSameSecs, Unset, At, Secs, Blank

\* Changes of the burn setting of a conversation, made by both ends and arriving in any
\* order, leave the same setting at both, unless the history names an accident: for
\* any number of users and settings, and however far apart their clocks are.
THEOREM BurnAgreesAlways == Spec => []BurnAgrees
<1>1. TypeOK /\ Settling /\ [Next]_vars => Settling'
  BY SettlingStep
<1>2. TypeOK /\ Settling => BurnAgrees
  BY SettlingSuffices
<1> QED BY <1>1, <1>2, InitSettling, TypeCorrect, PTL DEF Spec

=============================================================================

-------------------------- MODULE StagePagesProofs --------------------------
(***************************************************************************)
(* Proofs about StagePages, for any rows, any bounds and any pages to      *)
(* visit: what becomes of the windows, what a save names and sends, which  *)
(* checks decide about it, and why a button is dead.                       *)
(*                                                                         *)
(* All four rest on one invariant, PageInv.  Its part about the windows is *)
(* stated for pages on which no window has overlapped a fading one: there  *)
(* at most one layer stands, its note is in the slot, and every fade under *)
(* way took that layer and that note, or the layer has gone and the window *)
(* is at home.                                                             *)
(***************************************************************************)
EXTENDS StagePages, TLAPS

WindowsOf(p) == FormsOf(p) \cup CommonWindows
Fades == [els : SUBSET Layers, note : Notes \cup {Null}, then : Reloads \cup {Null}]

(* No layer stands; a fade that still runs has nothing left to bring back. *)
Hidden(u) ==
  /\ u.stack = <<>> /\ u.block = Null /\ u.growl = Null /\ u.history = Null
  /\ \A w \in DOMAIN u.place : u.place[w] = Home
  /\ \A f \in Range(u.fades) :
       f.note = Null \/ f.note.parent = Home \/ f.note.el = Growl

(* The layer l stands, with the message of the load or one window.         *)
Carries(u, l) ==
  \/ /\ u.growl = l /\ u.history = [el |-> Growl, parent |-> Lost]
     /\ \A w \in DOMAIN u.place : u.place[w] = Home
  \/ /\ u.growl = Null
     /\ \E w \in DOMAIN u.place :
          /\ u.history = [el |-> w, parent |-> Home]
          /\ \A x \in DOMAIN u.place : u.place[x] = IF x = w THEN l ELSE Home

Stands(u, l) == u.block = l /\ u.fades = <<>>
GoesWithFades(u, l) ==
  /\ u.block = Null /\ u.fades # <<>>
  /\ \A f \in Range(u.fades) : f.els = {l} /\ f.note = u.history

Calm(u) ==
  \/ Hidden(u)
  \/ \E l \in Layers :
       u.stack = <<l>> /\ Carries(u, l) /\ (Stands(u, l) \/ GoesWithFades(u, l))

UiFields ==
  {"stack", "block", "growl", "timeout", "history", "place", "fades", "overlap"}

UiInv(u, ws) ==
  /\ DOMAIN u = UiFields
  /\ u.overlap \in BOOLEAN
  /\ ~u.overlap => DOMAIN u.place = ws /\ u.fades \in Seq(Fades) /\ Calm(u)

-----------------------------------------------------------------------------
(* What is under way.  A save notes fields that it looks at.               *)
ShowAsks(p) == [kind : {"show"}, h : Askers(p), row : Rows]
SaveAsks(p) ==
  UNION {[kind : {"save"}, h : {h}, row : Rows, of : Rows, file : Rows,
          bad : SUBSET h.tests] : h \in Savers(p)}
UploadAsks(p) == [kind : {"upload"}, form : FileForms(p), row : Rows]
Asks(p) == ShowAsks(p) \cup SaveAsks(p) \cup UploadAsks(p)

PageTypes ==
  /\ page \in Pages
  /\ id \in [FormsOf(page) -> Rows] /\ shown \in [FormsOf(page) -> Rows]
  /\ file \in [FileForms(page) -> Rows]
  /\ val \in [Fields(page) -> {"good", "bad", "empty"}]
  /\ timers \in Seq(Reloads) /\ asks \in Seq(Asks(page))
  /\ \A form \in off : \E h \in Savers(page) : h.form = form /\ ~h.kept

(* A form saves to the row it shows, but for the form of a user's role.    *)
SameRow ==
  \A form \in FormsOf(page) \ {"changeUserRoleInfoWin"} : id[form] = shown[form]

(* The value of a file is never bad.                                       *)
FileValueGood ==
  page = "sysConfig" /\ shown["changeConfigValueWin"] \in FileRecs =>
    val["change_config_value"] # "bad"

SaveRight(a) ==
  a.kind = "save" =>
    /\ a.row # a.of => a.h.form = "changeUserRoleInfoWin"
    /\ a.bad \subseteq Unchecked(a.h)

(* Why the button of a form may be dead: DeadButtonExplained without the   *)
(* condition that the form is in front.                                    *)
Explained(form) ==
  \/ form \in failed \/ timers # <<>>
  \/ \E a \in Range(asks) : a.kind = "save" /\ a.h.form = form
  \/ \E f \in Range(ui.fades) : f.then # Null
  \/ form = "changeUserPassInfoWin"
  \/ ui.overlap

PageInv ==
  /\ page # Null =>
       /\ PageTypes /\ UiInv(ui, WindowsOf(page)) /\ SameRow /\ FileValueGood
  /\ \A a \in Range(asks) : SaveRight(a)
  /\ \A form \in off : Explained(form)
  /\ LostOnlyByOverlap

-----------------------------------------------------------------------------
(* The stack of layers, which has at most one layer as long as nothing     *)
(* overlaps.                                                               *)
LEMMA NoneLeft == ASSUME NEW gone PROVE Without(<<>>, gone) = <<>>
<1> DEFINE F(f) == [n \in 0 .. Len(<<>>) |->
                      IF n = 0 THEN <<>>
                      ELSE IF <<>>[n] \in gone THEN f[n - 1]
                      ELSE Append(f[n - 1], <<>>[n])]
           g == [n \in {0} |-> <<>>]
<1>1. g = F(g)
  OBVIOUS
<1>2. \A f : f = F(f) => f[0] = <<>>
  OBVIOUS
<1>3. Without(<<>>, gone) = (CHOOSE f : f = F(f))[0]
  BY DEF Without
<1> HIDE DEF F, g
<1> QED
  BY <1>1, <1>2, <1>3

LEMMA OneLeft ==
  ASSUME NEW l, NEW gone
  PROVE  Without(<<l>>, gone) = IF l \in gone THEN <<>> ELSE <<l>>
<1> DEFINE F(f) == [n \in 0 .. Len(<<l>>) |->
                      IF n = 0 THEN <<>>
                      ELSE IF <<l>>[n] \in gone THEN f[n - 1]
                      ELSE Append(f[n - 1], <<l>>[n])]
           g == [n \in {0, 1} |-> IF n = 0 \/ l \in gone THEN <<>> ELSE <<l>>]
<1>0. Append(<<>>, l) = <<l>> /\ Len(<<l>>) = 1 /\ <<l>>[1] = l
  OBVIOUS
<1>1. g = F(g)
  BY <1>0
<1>2. ASSUME NEW f, f = F(f)
      PROVE  f[1] = IF l \in gone THEN <<>> ELSE <<l>>
  <2>0. PICK t : t = <<l>>
    OBVIOUS
  <2>1. f = [n \in 0 .. 1 |-> IF n = 0 THEN <<>>
                              ELSE IF t[n] \in gone THEN f[n - 1]
                              ELSE Append(f[n - 1], t[n])]
    BY <1>2, <1>0, <2>0
  <2> HIDE DEF F
  <2>2. f[0] = <<>>
    BY <2>1
  <2>3. f[1] = IF t[1] \in gone THEN f[0] ELSE Append(f[0], t[1])
    <3>1. \A n \in {1} : n \in 0 .. 1 /\ n # 0 /\ n - 1 = 0
      OBVIOUS
    <3>2. \A n \in {1} : f[n] = IF t[n] \in gone THEN f[n - 1] ELSE Append(f[n - 1], t[n])
      BY <2>1, <3>1
    <3> QED
      BY <3>1, <3>2
  <2>4. t[1] = l
    BY <2>0
  <2> QED
    BY <2>2, <2>3, <2>4, <1>0
<1>3. Without(<<l>>, gone) = (CHOOSE f : f = F(f))[1]
  BY <1>0 DEF Without
<1> HIDE DEF F, g
<1> QED
  BY <1>1, <1>2, <1>3

LEMMA RemovedPlaces ==
  ASSUME NEW S, NEW s \in Seq(S), NEW j \in DOMAIN s
  PROVE  /\ RemoveAt(s, j) \in Seq(S)
         /\ DOMAIN RemoveAt(s, j) = 1 .. Len(s) - 1
         /\ \A k \in 1 .. Len(s) - 1 :
              RemoveAt(s, j)[k] = IF k < j THEN s[k] ELSE s[k + 1]
<1>1. j \in 1 .. Len(s) /\ Len(s) \in Nat
  OBVIOUS
<1>2. PICK a : a = SubSeq(s, 1, j - 1)
  OBVIOUS
<1>3. PICK b : b = SubSeq(s, j + 1, Len(s))
  OBVIOUS
<1>4. a \in Seq(S) /\ Len(a) = j - 1 /\ \A k \in 1 .. j - 1 : a[k] = s[k]
  BY <1>1, <1>2
<1>5. b \in Seq(S) /\ Len(b) = Len(s) - j /\ \A k \in 1 .. Len(s) - j : b[k] = s[k + j]
  BY <1>1, <1>3
<1>6. RemoveAt(s, j) = a \o b
  BY <1>2, <1>3 DEF RemoveAt
<1>7. a \o b \in Seq(S) /\ Len(a \o b) = Len(s) - 1
  BY <1>1, <1>4, <1>5
<1>8. DOMAIN (a \o b) = 1 .. Len(s) - 1
  BY <1>7
<1>9. ASSUME NEW k \in 1 .. Len(s) - 1
      PROVE  (a \o b)[k] = IF k < j THEN s[k] ELSE s[k + 1]
  BY <1>1, <1>4, <1>5
<1> QED
  BY <1>6, <1>7, <1>8, <1>9

LEMMA RemovedAt ==
  ASSUME NEW S, NEW s \in Seq(S), NEW j \in DOMAIN s
  PROVE  /\ RemoveAt(s, j) \in Seq(S)
         /\ Len(RemoveAt(s, j)) = Len(s) - 1
         /\ Range(RemoveAt(s, j)) \subseteq Range(s)
         /\ \A x \in Range(s) : x # s[j] => x \in Range(RemoveAt(s, j))
<1>1. PICK r : r = RemoveAt(s, j)
  OBVIOUS
<1>2. /\ r \in Seq(S) /\ DOMAIN r = 1 .. Len(s) - 1
      /\ \A k \in 1 .. Len(s) - 1 : r[k] = IF k < j THEN s[k] ELSE s[k + 1]
  BY <1>1, RemovedPlaces
<1>3. j \in 1 .. Len(s) /\ Len(s) \in Nat
  OBVIOUS
<1>4. Len(r) = Len(s) - 1
  BY <1>2, <1>3
<1>5. ASSUME NEW k \in 1 .. Len(s) - 1
      PROVE  r[k] \in Range(s)
  <2>1. PICK m \in {k, k + 1} : r[k] = s[m]
    BY <1>2
  <2>2. m \in DOMAIN s
    BY <1>3, <2>1
  <2> QED
    BY <2>1, <2>2 DEF Range
<1>6. ASSUME NEW k \in 1 .. Len(s), s[k] # s[j]
      PROVE  s[k] \in Range(r)
  <2>1. PICK m \in 1 .. Len(s) - 1 : r[m] = s[k]
    <3>1. CASE k < j
      <4>1. k \in 1 .. Len(s) - 1
        BY <1>3, <3>1
      <4> QED
        BY <1>2, <3>1, <4>1
    <3>2. CASE k > j
      <4>1. PICK m \in 1 .. Len(s) - 1 : m + 1 = k /\ ~ (m < j)
        <5>1. k - 1 \in 1 .. Len(s) - 1 /\ (k - 1) + 1 = k /\ ~ (k - 1 < j)
          BY <1>3, <3>2
        <5> QED
          BY <5>1
      <4> QED
        BY <1>2, <4>1
    <3> QED
      BY <1>3, <1>6, <3>1, <3>2
  <2> QED
    BY <1>2, <2>1 DEF Range
<1>7. Range(r) \subseteq Range(s)
  BY <1>2, <1>5 DEF Range
<1>8. DOMAIN s = 1 .. Len(s)
  OBVIOUS
<1>9. \A x \in Range(s) : x # s[j] => x \in Range(r)
  BY <1>6, <1>8 DEF Range
<1> QED
  BY <1>1, <1>2, <1>4, <1>7, <1>9
-----------------------------------------------------------------------------
(* The functions of block.js, field by field.                              *)
LEMMA ResetFields ==
  ASSUME NEW u, DOMAIN u = UiFields, NEW els, NEW note,
         NEW v, v = Reset(u, els, note)
  PROVE  /\ DOMAIN v = UiFields
         /\ v.stack = Without(u.stack, els) /\ v.block = u.block
         /\ v.growl = (IF u.growl \in els THEN Null ELSE u.growl)
         /\ v.history = (IF note # Null THEN Null ELSE u.history)
         /\ v.fades = u.fades /\ v.overlap = u.overlap
         /\ DOMAIN v.place = DOMAIN u.place
         /\ \A w \in DOMAIN u.place :
              LET p == IF note # Null /\ note.el = w THEN note.parent ELSE u.place[w]
              IN v.place[w] = IF p = Home \/ p \in Range(v.stack) THEN p ELSE Lost
  BY DEF Reset, UiFields

LEMMA RemoveNowFields ==
  ASSUME NEW u, DOMAIN u = UiFields, NEW v, v = Reset(u, LayersOf(u), u.history),
         NEW r, r = RemoveNow(u)
  PROVE  /\ DOMAIN r = UiFields /\ r.block = Null
         /\ r.stack = v.stack /\ r.growl = v.growl /\ r.history = v.history
         /\ r.place = v.place /\ r.fades = u.fades /\ r.overlap = u.overlap
<1>1. PICK els, note : els = LayersOf(u) /\ note = u.history
  OBVIOUS
<1>2. DOMAIN v = UiFields /\ v.fades = u.fades /\ v.overlap = u.overlap
  BY <1>1, ResetFields
<1>3. r = [v EXCEPT !.block = Null, !.timeout = FALSE]
  BY DEF RemoveNow
<1> QED
  BY <1>2, <1>3 DEF UiFields

LEMMA RemoveFadingFields ==
  ASSUME NEW u, DOMAIN u = UiFields, NEW then
  PROVE  LET r == RemoveFading(u, then)
         IN /\ DOMAIN r = UiFields /\ r.block = Null
            /\ r.stack = u.stack /\ r.growl = u.growl /\ r.history = u.history
            /\ r.place = u.place /\ r.overlap = u.overlap
            /\ r.fades = Append(u.fades, Fade(LayersOf(u), u.history, then))
  BY DEF RemoveFading, UiFields

LEMMA InstallFields ==
  ASSUME NEW u, DOMAIN u = UiFields, NEW w,
         NEW v, v = IF u.block # Null THEN RemoveNow(u) ELSE u,
         NEW r, r = Install(u, w), NEW l, l = FreshLayer(v)
  PROVE  /\ CanInstall(u, w) <=> v.place[w] # Lost
         /\ DOMAIN r = UiFields /\ r.fades = u.fades
         /\ v.place[w] = Lost => r.overlap = u.overlap
         /\ v.place[w] # Lost =>
              /\ r.stack = Append(v.stack, l) /\ r.block = l
              /\ r.growl = v.growl
              /\ r.history = [el |-> w, parent |-> v.place[w]]
              /\ r.place = [v.place EXCEPT ![w] = l]
              /\ r.overlap = (u.overlap \/ u.fades # <<>>)
<1>1. DOMAIN v = UiFields /\ v.fades = u.fades /\ v.overlap = u.overlap
  BY RemoveNowFields
<1>2. CanInstall(u, w) <=> v.place[w] # Lost
  BY DEF CanInstall
<1>3. CASE v.place[w] = Lost
  <2>1. r = [v EXCEPT !.history = Null]
    BY <1>3 DEF Install
  <2> QED
    BY <1>1, <1>2, <1>3, <2>1 DEF UiFields
<1>4. CASE v.place[w] # Lost
  <2>1. r = [v EXCEPT !.stack = Append(@, l),
                      !.block = l,
                      !.history = [el |-> w, parent |-> v.place[w]],
                      !.place[w] = l,
                      !.overlap = @ \/ v.fades # <<>>]
    BY <1>4 DEF Install
  <2> QED
    BY <1>1, <1>2, <1>4, <2>1 DEF UiFields
<1> QED
  BY <1>3, <1>4

-----------------------------------------------------------------------------
(* What they keep.  ws: the windows of the page.                           *)
LEMMA LayersAreNumbers ==
  /\ Layers \subseteq Nat /\ 1 \in Layers /\ Home \notin Layers /\ Lost \notin Layers
  /\ Null \notin Layers /\ Home # Lost /\ Null # Home
<1>1. 2 * MaxFades + 3 \in Nat /\ 2 * MaxFades + 3 >= 1 /\ Lost = (2 * MaxFades + 3) + 1
  BY WindowsAssumption DEF Lost
<1> QED
  BY <1>1, WindowsAssumption DEF Layers, Home

LEMMA LoadedCalm ==
  ASSUME NEW ws
  PROVE  UiInv(Loaded(ws), ws)
<1>1. PICK u : u = Loaded(ws)
  OBVIOUS
<1>2. /\ DOMAIN u = UiFields /\ u.overlap = FALSE /\ u.stack = <<1>> /\ u.block = 1
      /\ u.growl = 1 /\ u.history = [el |-> Growl, parent |-> Lost]
      /\ DOMAIN u.place = ws /\ (\A w \in ws : u.place[w] = Home) /\ u.fades = <<>>
  BY <1>1 DEF Loaded, UiFields
<1>3. u.fades \in Seq(Fades)
  BY <1>2
<1>4. Carries(u, 1) /\ Stands(u, 1)
  BY <1>2 DEF Carries, Stands
<1>5. Calm(u)
  BY <1>2, <1>4, LayersAreNumbers DEF Calm
<1> QED
  BY <1>1, <1>2, <1>3, <1>5 DEF UiInv

LEMMA CarriesSame ==
  ASSUME NEW u, NEW r, NEW l, Carries(u, l),
         r.growl = u.growl, r.history = u.history, r.place = u.place
  PROVE  Carries(r, l)
<1>1. CASE u.growl = Null /\ \E w \in DOMAIN u.place :
             /\ u.history = [el |-> w, parent |-> Home]
             /\ \A x \in DOMAIN u.place : u.place[x] = IF x = w THEN l ELSE Home
  <2>1. PICK w \in DOMAIN u.place :
               /\ u.history = [el |-> w, parent |-> Home]
               /\ \A x \in DOMAIN u.place : u.place[x] = IF x = w THEN l ELSE Home
    BY <1>1
  <2>2. /\ w \in DOMAIN r.place /\ r.history = [el |-> w, parent |-> Home]
        /\ \A x \in DOMAIN r.place : r.place[x] = IF x = w THEN l ELSE Home
    BY <2>1
  <2> QED
    BY <1>1, <2>2 DEF Carries
<1> QED
  BY <1>1 DEF Carries

(* A note that is in the slot is a note.                                   *)
LEMMA SlotHoldsNote ==
  ASSUME NEW u, NEW l, Carries(u, l), DOMAIN u.place \subseteq Windows
  PROVE  u.history \in Notes /\ u.history # Null
<1>1. \A w \in Windows \cup {Growl}, p \in {Home, Lost} : [el |-> w, parent |-> p] \in Notes
  BY DEF Notes, Places
<1> QED
  BY <1>1, WindowsAssumption DEF Carries

LEMMA RemoveFadingCalm ==
  ASSUME NEW ws, ws \subseteq Windows, NEW u, UiInv(u, ws),
         NEW then \in Reloads \cup {Null}, NEW r, r = RemoveFading(u, then)
  PROVE  /\ UiInv(r, ws) /\ r.overlap = u.overlap
         /\ r.fades = Append(u.fades, Fade(LayersOf(u), u.history, then))
<1> USE DEF UiInv
<1>1. /\ DOMAIN r = UiFields /\ r.block = Null
      /\ r.stack = u.stack /\ r.growl = u.growl /\ r.history = u.history
      /\ r.place = u.place /\ r.overlap = u.overlap
      /\ r.fades = Append(u.fades, Fade(LayersOf(u), u.history, then))
  BY RemoveFadingFields
<1>2. CASE u.overlap
  BY <1>1, <1>2
<1>3. CASE ~ u.overlap
  <2>1. DOMAIN u.place = ws /\ u.fades \in Seq(Fades) /\ Calm(u)
    BY <1>3
  <2>2. PICK f : f = Fade(LayersOf(u), u.history, then)
    OBVIOUS
  <2>3. f.els = LayersOf(u) /\ f.note = u.history /\ f.then = then
    BY <2>2 DEF Fade
  <2>4. ASSUME f \in Fades
        PROVE  /\ r.fades \in Seq(Fades) /\ r.fades # <<>>
               /\ Range(r.fades) = Range(u.fades) \cup {f}
    <3>1. r.fades = Append(u.fades, f)
      BY <1>1, <2>2
    <3>2. /\ r.fades \in Seq(Fades) /\ Len(r.fades) = Len(u.fades) + 1 /\ Len(u.fades) \in Nat
          /\ \A k \in 1 .. Len(u.fades) : r.fades[k] = u.fades[k]
          /\ r.fades[Len(u.fades) + 1] = f
      BY <2>1, <2>4, <3>1
    <3>3. DOMAIN r.fades = 1 .. Len(u.fades) + 1 /\ DOMAIN u.fades = 1 .. Len(u.fades)
      BY <3>2, <2>1
    <3> QED
      BY <3>2, <3>3 DEF Range
  <2>5. CASE Hidden(u)
    <3>1. LayersOf(u) = {}
      BY <2>5 DEF Hidden, LayersOf, Range
    <3>2. f \in Fades
      BY <2>2, <2>5, <3>1 DEF Fade, Fades, Hidden
    <3>3. Hidden(r)
      BY <1>1, <2>3, <2>4, <2>5, <3>2 DEF Hidden
    <3> QED
      BY <1>1, <2>1, <2>4, <3>2, <3>3 DEF Calm
  <2>6. ASSUME NEW l \in Layers, u.stack = <<l>>, Carries(u, l),
               Stands(u, l) \/ GoesWithFades(u, l)
        PROVE  UiInv(r, ws)
    <3>1. LayersOf(u) = {l}
      BY <2>6 DEF LayersOf, Range
    <3>2. u.history \in Notes
      BY <2>1, <2>6, SlotHoldsNote
    <3>3. f \in Fades
      BY <2>2, <3>1, <3>2 DEF Fade, Fades
    <3>4. Carries(r, l)
      BY <1>1, <2>6, CarriesSame
    <3>5. \A g \in Range(u.fades) : g.els = {l} /\ g.note = u.history
      BY <2>6 DEF Stands, GoesWithFades, Range
    <3>6. GoesWithFades(r, l)
      BY <1>1, <2>3, <2>4, <3>1, <3>3, <3>5 DEF GoesWithFades
    <3> QED
      BY <1>1, <2>1, <2>4, <2>6, <3>3, <3>4, <3>6 DEF Calm
  <2>7. UiInv(r, ws)
    BY <2>1, <2>5, <2>6 DEF Calm
  <2> QED
    BY <1>1, <2>7
<1> QED
  BY <1>1, <1>2, <1>3

(* When the layers els go and the note in the slot is taken back, the page *)
(* is as if nothing had stood.                                             *)
LEMMA NothingStands ==
  ASSUME NEW ws, ws \subseteq Windows, Growl \notin ws, NEW u, DOMAIN u = UiFields,
         DOMAIN u.place = ws, NEW l \in Layers, u.stack = <<l>>, Carries(u, l),
         NEW els, l \in els, NEW r, r = Reset(u, els, u.history)
  PROVE  /\ r.stack = <<>> /\ r.growl = Null /\ r.history = Null
         /\ DOMAIN r.place = ws /\ \A w \in ws : r.place[w] = Home
         /\ u.history.parent = Home \/ u.history.el = Growl
<1>1. u.history # Null
  BY SlotHoldsNote
<1>2. PICK note : note = u.history
  OBVIOUS
<1>3. /\ r.stack = Without(u.stack, els)
      /\ r.growl = (IF u.growl \in els THEN Null ELSE u.growl)
      /\ r.history = (IF note # Null THEN Null ELSE u.history)
      /\ DOMAIN r.place = DOMAIN u.place
      /\ \A w \in DOMAIN u.place :
           LET p == IF note # Null /\ note.el = w THEN note.parent ELSE u.place[w]
           IN r.place[w] = IF p = Home \/ p \in Range(r.stack) THEN p ELSE Lost
  BY <1>2, ResetFields
<1>4. r.stack = <<>>
  BY <1>3, OneLeft
<1>5. ASSUME u.growl = l, note = [el |-> Growl, parent |-> Lost],
             \A w \in DOMAIN u.place : u.place[w] = Home
      PROVE  /\ r.growl = Null /\ note.el = Growl
             /\ \A x \in ws : r.place[x] = Home
  <2>1. r.growl = Null /\ note.el = Growl /\ \A w \in ws : note.el # w /\ u.place[w] = Home
    BY <1>3, <1>5
  <2> QED
    BY <1>3, <2>1
<1>6. ASSUME u.growl = Null, NEW w \in DOMAIN u.place, note = [el |-> w, parent |-> Home],
             \A x \in DOMAIN u.place : u.place[x] = IF x = w THEN l ELSE Home
      PROVE  /\ r.growl = Null /\ note.parent = Home
             /\ \A x \in ws : r.place[x] = Home
  BY <1>1, <1>2, <1>3, <1>6
<1>7. r.growl = Null /\ (note.parent = Home \/ note.el = Growl) /\ \A x \in ws : r.place[x] = Home
  <2>1. CASE u.growl = Null /\ \E w \in DOMAIN u.place :
               /\ u.history = [el |-> w, parent |-> Home]
               /\ \A x \in DOMAIN u.place : u.place[x] = IF x = w THEN l ELSE Home
    BY <1>2, <1>6, <2>1
  <2>2. CASE u.growl = l /\ u.history = [el |-> Growl, parent |-> Lost]
             /\ \A w \in DOMAIN u.place : u.place[w] = Home
    BY <1>2, <1>5, <2>2
  <2> QED
    BY <2>1, <2>2 DEF Carries
<1> QED
  BY <1>1, <1>2, <1>3, <1>4, <1>7

LEMMA RemoveNowHides ==
  ASSUME NEW ws, ws \subseteq Windows, Growl \notin ws, NEW u, DOMAIN u = UiFields,
         DOMAIN u.place = ws, NEW l \in Layers, u.stack = <<l>>, Carries(u, l),
         NEW r, r = RemoveNow(u)
  PROVE  /\ r.stack = <<>> /\ r.growl = Null /\ r.history = Null /\ r.fades = u.fades
         /\ DOMAIN r.place = ws /\ \A w \in ws : r.place[w] = Home
<1>1. l \in LayersOf(u)
  BY DEF LayersOf, Range
<1>2. PICK v : v = Reset(u, LayersOf(u), u.history)
  OBVIOUS
<1>3. /\ v.stack = <<>> /\ v.growl = Null /\ v.history = Null
      /\ DOMAIN v.place = ws /\ \A w \in ws : v.place[w] = Home
  BY <1>1, <1>2, NothingStands
<1>4. /\ r.stack = v.stack /\ r.growl = v.growl /\ r.history = v.history
      /\ r.place = v.place /\ r.fades = u.fades
  BY <1>2, RemoveNowFields
<1> QED
  BY <1>3, <1>4

LEMMA EndFadeCalm ==
  ASSUME NEW ws, ws \subseteq Windows, Growl \notin ws, NEW u, UiInv(u, ws),
         NEW i \in DOMAIN u.fades, NEW r, r = EndFade(u, i)
  PROVE  /\ UiInv(r, ws) /\ r.overlap = u.overlap
         /\ r.fades = RemoveAt(u.fades, i)
<1> USE DEF UiInv
<1>1. PICK v : v = [u EXCEPT !.fades = RemoveAt(@, i)]
  OBVIOUS
<1>2. /\ DOMAIN v = UiFields /\ v.fades = RemoveAt(u.fades, i)
      /\ v.stack = u.stack /\ v.block = u.block /\ v.growl = u.growl
      /\ v.history = u.history /\ v.place = u.place /\ v.overlap = u.overlap
  BY <1>1 DEF UiFields
<1>3. PICK f : f = u.fades[i]
  OBVIOUS
<1>4. PICK els, note : els = f.els /\ note = f.note
  OBVIOUS
<1>5. r = Reset(v, els, note)
  BY <1>1, <1>3, <1>4 DEF EndFade
<1>6. /\ DOMAIN r = UiFields
      /\ r.stack = Without(v.stack, els) /\ r.block = v.block
      /\ r.growl = (IF v.growl \in els THEN Null ELSE v.growl)
      /\ r.history = (IF note # Null THEN Null ELSE v.history)
      /\ r.fades = v.fades /\ r.overlap = v.overlap
      /\ DOMAIN r.place = DOMAIN v.place
      /\ \A w \in DOMAIN v.place :
           LET p == IF note # Null /\ note.el = w THEN note.parent ELSE v.place[w]
           IN r.place[w] = IF p = Home \/ p \in Range(r.stack) THEN p ELSE Lost
  BY <1>2, <1>5, ResetFields
<1>7. CASE u.overlap
  BY <1>2, <1>6, <1>7
<1>8. CASE ~ u.overlap
  <2>1. DOMAIN u.place = ws /\ u.fades \in Seq(Fades) /\ Calm(u)
    BY <1>8
  <2>2. /\ RemoveAt(u.fades, i) \in Seq(Fades)
        /\ Range(RemoveAt(u.fades, i)) \subseteq Range(u.fades)
    BY <2>1, RemovedAt
  <2>3. f \in Range(u.fades)
    BY <1>3 DEF Range
  <2>4. CASE Hidden(u)
    <3>1. r.stack = <<>>
      BY <1>2, <1>6, <2>4, NoneLeft DEF Hidden
    <3>2. note = Null \/ note.parent = Home \/ note.el = Growl
      BY <1>4, <2>3, <2>4 DEF Hidden
    <3>3. \A w \in DOMAIN r.place : r.place[w] = Home
      BY <1>2, <1>6, <2>1, <2>4, <3>2 DEF Hidden
    <3>4. Hidden(r)
      BY <1>2, <1>6, <2>2, <2>4, <3>1, <3>3 DEF Hidden
    <3> QED
      BY <1>2, <1>6, <2>1, <2>2, <3>4 DEF Calm
  <2>5. ASSUME NEW l \in Layers, u.stack = <<l>>, Carries(u, l),
               Stands(u, l) \/ GoesWithFades(u, l)
        PROVE  UiInv(r, ws)
    <3>1. GoesWithFades(u, l)
      BY <2>1, <2>5 DEF Stands
    <3>2. els = {l} /\ note = u.history /\ u.block = Null
      BY <1>4, <2>3, <3>1 DEF GoesWithFades
    <3>3. Carries(v, l)
      BY <1>2, <2>5, CarriesSame
    <3>7. l \in els /\ DOMAIN v = UiFields /\ DOMAIN v.place = ws /\ v.stack = <<l>>
          /\ r = Reset(v, els, v.history) /\ v.history = note
      BY <1>2, <1>5, <2>1, <2>5, <3>2
    <3>4. /\ r.stack = <<>> /\ r.growl = Null /\ r.history = Null
          /\ DOMAIN r.place = ws /\ \A w \in ws : r.place[w] = Home
          /\ v.history.parent = Home \/ v.history.el = Growl
      BY <3>3, <3>7, NothingStands, SMTT(30)
    <3>5. \A g \in Range(r.fades) : g.note = note
      BY <1>2, <1>6, <2>2, <3>1, <3>2 DEF GoesWithFades
    <3>6. Hidden(r)
      BY <1>2, <1>6, <3>2, <3>4, <3>5, <3>7 DEF Hidden
    <3> QED
      BY <1>2, <1>6, <2>2, <3>4, <3>6 DEF Calm
  <2>6. UiInv(r, ws)
    BY <2>1, <2>4, <2>5 DEF Calm
  <2> QED
    BY <1>2, <1>6, <2>6
<1> QED
  BY <1>2, <1>6, <1>7, <1>8

(* A window opens: in front of nothing, or over one that fades, which is   *)
(* noted.  It does not open only where windows have overlapped before.     *)
LEMMA InstallCalm ==
  ASSUME NEW ws, ws \subseteq Windows, Growl \notin ws, NEW u, UiInv(u, ws),
         NEW w \in ws, NEW r, r = Install(u, w)
  PROVE  /\ UiInv(r, ws) /\ r.fades = u.fades
         /\ u.overlap => r.overlap
         /\ u.overlap \/ CanInstall(u, w)
         /\ r.overlap => u.overlap \/ u.fades # <<>>
<1> USE DEF UiInv
<1>1. PICK v : v = IF u.block # Null THEN RemoveNow(u) ELSE u
  OBVIOUS
<1>2. PICK l : l = FreshLayer(v)
  OBVIOUS
<1>3. /\ CanInstall(u, w) <=> v.place[w] # Lost
      /\ DOMAIN r = UiFields /\ r.fades = u.fades
      /\ v.place[w] = Lost => r.overlap = u.overlap
      /\ v.place[w] # Lost =>
           /\ r.stack = Append(v.stack, l) /\ r.block = l
           /\ r.growl = v.growl
           /\ r.history = [el |-> w, parent |-> v.place[w]]
           /\ r.place = [v.place EXCEPT ![w] = l]
           /\ r.overlap = (u.overlap \/ u.fades # <<>>)
  BY <1>1, <1>2, InstallFields
<1>4. CASE u.overlap
  BY <1>3, <1>4
<1>5. CASE ~ u.overlap
  <2>1. DOMAIN u.place = ws /\ u.fades \in Seq(Fades) /\ Calm(u)
    BY <1>5
  <2>2. CASE u.fades = <<>>
    <3>1. /\ v.stack = <<>> /\ v.growl = Null /\ v.history = Null
          /\ DOMAIN v.place = ws /\ (\A x \in ws : v.place[x] = Home) /\ v.fades = <<>>
      <4>1. CASE Hidden(u)
        BY <1>1, <2>1, <2>2, <4>1 DEF Hidden
      <4>2. ASSUME NEW k \in Layers, u.stack = <<k>>, Carries(u, k),
                   Stands(u, k) \/ GoesWithFades(u, k)
            PROVE  /\ v.stack = <<>> /\ v.growl = Null /\ v.history = Null
                   /\ DOMAIN v.place = ws /\ (\A x \in ws : v.place[x] = Home)
                   /\ v.fades = <<>>
        <5>1. u.block # Null
          BY <2>2, <4>2, LayersAreNumbers DEF Stands, GoesWithFades
        <5>2. DOMAIN u = UiFields /\ v = RemoveNow(u)
          BY <1>1, <5>1
        <5> QED
          BY <2>1, <2>2, <4>2, <5>2, RemoveNowHides
      <4> QED
        BY <2>1, <4>1, <4>2 DEF Calm
    <3>2. l \in Layers
      <4>1. Taken(v) \subseteq {Home}
        <5>1. /\ \A x : x \notin Range(v.stack) /\ x \notin Range(v.fades)
              /\ \A x \in Range(v.place) : x = Home
          BY <3>1 DEF Range
        <5> QED
          BY <3>1, <5>1 DEF Taken, LayersOf
      <4>2. 1 \in Layers \ Taken(v) /\ \A m \in Layers \ Taken(v) : 1 <= m
        BY <4>1, LayersAreNumbers DEF Layers
      <4> QED
        BY <1>2, <4>2 DEF FreshLayer
    <3>3. v.place[w] = Home /\ v.place[w] # Lost
      BY <3>1, LayersAreNumbers
    <3>4. /\ r.stack = <<l>> /\ r.block = l /\ r.growl = Null
          /\ r.history = [el |-> w, parent |-> Home] /\ r.fades = <<>>
          /\ DOMAIN r.place = ws /\ (\A x \in ws : r.place[x] = IF x = w THEN l ELSE Home)
          /\ r.overlap = FALSE
      BY <1>3, <1>5, <2>2, <3>1, <3>3
    <3>5. Carries(r, l) /\ Stands(r, l)
      BY <3>4 DEF Carries, Stands
    <3>6. UiInv(r, ws)
      BY <1>3, <3>2, <3>4, <3>5 DEF Calm
    <3> QED
      BY <1>3, <1>5, <3>3, <3>4, <3>6
  <2>3. CASE u.fades # <<>>
    <3>1. u.block = Null
      BY <2>1, <2>3 DEF Calm, Hidden, Stands, GoesWithFades
    <3>2. u.place[w] \in {Home} \cup Layers
      BY <2>1 DEF Calm, Hidden, Carries
    <3>3. v = u /\ v.place[w] # Lost
      BY <1>1, <3>1, <3>2, LayersAreNumbers
    <3> QED
      BY <1>3, <2>3, <3>3
  <2> QED
    BY <2>2, <2>3
<1> QED
  BY <1>4, <1>5

-----------------------------------------------------------------------------
(* The details of the handlers that matter, page by page.                  *)
OpensRight(p) ==
  \A h \in Openers(p) \cup Askers(p) :
    /\ h.at = Page \/ h.at \in FormsOf(p)
    /\ h.form # Growl

AsksRight(p) ==
  \A h \in Askers(p) :
    /\ h.late => h.form = "changeUserRoleInfoWin" /\ h.at \in FormsOf(p)
    /\ p = "sysConfig" /\ h.form = "changeConfigValueWin" =>
         "change_config_value" \in h.fills

SavesRight(p) ==
  /\ \A h \in Savers(p) :
       /\ h.form \in FormsOf(p)
       /\ h.reload \in Reloads \cup {"none"} /\ (~h.kept => h.reload # "none")
       /\ "error" \in h.answers /\ ~h.enables /\ ~h.kept =>
            h.form = "changeUserPassInfoWin"
       /\ "change_config_value" \in FieldsOf(h) =>
            p = "sysConfig" /\ h.form = "changeConfigValueWin"
  /\ \A h, g \in Savers(p) : h.form = g.form => h = g

HandlersRight(p) == OpensRight(p) /\ AsksRight(p) /\ SavesRight(p)

LEMMA HomeHandlers == HandlersRight("home")
<1>1. /\ Openers("home") = {UserInfoSet, Logout, ChangeUserPass}
      /\ Askers("home") = {UserInfo, ChangeUserBaseInfo}
      /\ Savers("home") = {SaveChangeUserBaseInfo, SaveChangeUserPassInfo}
  BY DEF Openers, Askers, Savers
<1>2. /\ UserInfoSet.form = "userInfoSetWin" /\ UserInfoSet.at = Page
      /\ Logout.form = "logoutConfirm" /\ Logout.at = Page
      /\ ChangeUserPass.form = "changeUserPassWin"
      /\ ChangeUserPass.at = "userInfoSetWin"
      /\ UserInfo.form = "currentUserInfoWin" /\ UserInfo.at = Page
      /\ ~UserInfo.late /\ ChangeUserBaseInfo.form = "changeUserBaseInfoWin"
      /\ ChangeUserBaseInfo.at = "userInfoSetWin" /\ ~ChangeUserBaseInfo.late
  BY DEF Opener, Asker, Page,
         UserInfoSet, Logout, ChangeUserPass, UserInfo, ChangeUserBaseInfo
<1>3. /\ SaveChangeUserBaseInfo.form = "changeUserBaseInfoWin"
      /\ SaveChangeUserBaseInfo.kept /\ ~SaveChangeUserBaseInfo.enables
      /\ SaveChangeUserBaseInfo.reload = "none"
      /\ SaveChangeUserBaseInfo.answers = DoneOrError
      /\ SaveChangeUserPassInfo.form = "changeUserPassWin"
      /\ SaveChangeUserPassInfo.kept /\ ~SaveChangeUserPassInfo.enables
      /\ SaveChangeUserPassInfo.reload = "none"
      /\ SaveChangeUserPassInfo.answers = DoneOrError
  BY DEF Saver, SaveChangeUserBaseInfo, SaveChangeUserPassInfo
<1>4. /\ "userInfoSetWin" \in FormsOf("home")
      /\ "logoutConfirm" \in FormsOf("home")
      /\ "changeUserPassWin" \in FormsOf("home")
      /\ "currentUserInfoWin" \in FormsOf("home")
      /\ "changeUserBaseInfoWin" \in FormsOf("home")
  BY <1>1, <1>2 DEF FormsOf
<1>5. OpensRight("home")
  BY <1>1, <1>2, <1>4 DEF OpensRight, Page, Growl
<1>6. AsksRight("home")
  BY <1>1, <1>2 DEF AsksRight
<1>7. \A h \in Savers("home") :
        /\ h.form \in FormsOf("home")
        /\ h.reload \in Reloads \cup {"none"} /\ (~h.kept => h.reload # "none")
  BY <1>1, <1>3, <1>4 DEF Reloads
<1>8. \A h \in Savers("home") :
        "error" \in h.answers /\ ~h.enables /\ ~h.kept => h.form = "changeUserPassInfoWin"
  BY <1>1, <1>3 DEF AnyAnswer, DoneOrError, DoneOrFailure
<1>9. \A h \in Savers("home") :
        "change_config_value" \in FieldsOf(h) =>
          "home" = "sysConfig" /\ h.form = "changeConfigValueWin"
  BY <1>1 DEF Saver, FieldsOf, SaveChangeUserBaseInfo, SaveChangeUserPassInfo
<1>10. \A h, g \in Savers("home") : h.form = g.form => h = g
  BY <1>1, <1>3
<1> QED
  BY <1>5, <1>6, <1>7, <1>8, <1>9, <1>10 DEF HandlersRight, SavesRight

LEMMA RolesHandlers == HandlersRight("roles")
<1>1. /\ Openers("roles") = {AddNewRole, RemoveRole}
      /\ Askers("roles") = {ShowRole, UpdateRole, AssignAuth}
      /\ Savers("roles") = {SaveNewRole, YesRemoveRole, SaveChangeRole, SaveChangeRoleAuth}
  BY DEF Openers, Askers, Savers
<1>2. /\ AddNewRole.form = "addNewRoleWin" /\ AddNewRole.at = Page
      /\ RemoveRole.form = "removeRoleConfirm" /\ RemoveRole.at = Page
      /\ ShowRole.form = "roleInfoWin" /\ ShowRole.at = Page /\ ~ShowRole.late
      /\ UpdateRole.form = "changeRoleWin" /\ UpdateRole.at = Page
      /\ ~UpdateRole.late /\ AssignAuth.form = "changeRoleAuthWin"
      /\ AssignAuth.at = Page /\ ~AssignAuth.late
  BY DEF Opener, Asker, Page,
         AddNewRole, RemoveRole, ShowRole, UpdateRole, AssignAuth
<1>3. /\ SaveNewRole.form = "addNewRoleWin" /\ ~SaveNewRole.kept
      /\ SaveNewRole.enables /\ SaveNewRole.reload = "pageTurn"
      /\ YesRemoveRole.form = "removeRoleConfirm" /\ ~YesRemoveRole.kept
      /\ YesRemoveRole.enables /\ YesRemoveRole.reload = "pageTurn"
      /\ SaveChangeRole.form = "changeRoleWin" /\ ~SaveChangeRole.kept
      /\ SaveChangeRole.enables /\ SaveChangeRole.reload = "pageTurn"
      /\ SaveChangeRoleAuth.form = "changeRoleAuthWin"
      /\ ~SaveChangeRoleAuth.kept /\ SaveChangeRoleAuth.enables
      /\ SaveChangeRoleAuth.reload = "pageTurn"
  BY DEF Saver, SaveNewRole, YesRemoveRole, SaveChangeRole, SaveChangeRoleAuth
<1>4. /\ "addNewRoleWin" \in FormsOf("roles")
      /\ "removeRoleConfirm" \in FormsOf("roles")
      /\ "roleInfoWin" \in FormsOf("roles")
      /\ "changeRoleWin" \in FormsOf("roles")
      /\ "changeRoleAuthWin" \in FormsOf("roles")
  BY <1>1, <1>2 DEF FormsOf
<1>5. OpensRight("roles")
  BY <1>1, <1>2, <1>4 DEF OpensRight, Page, Growl
<1>6. AsksRight("roles")
  BY <1>1, <1>2 DEF AsksRight
<1>7. \A h \in Savers("roles") :
        /\ h.form \in FormsOf("roles")
        /\ h.reload \in Reloads \cup {"none"} /\ (~h.kept => h.reload # "none")
  BY <1>1, <1>3, <1>4 DEF Reloads
<1>8. \A h \in Savers("roles") :
        "error" \in h.answers /\ ~h.enables /\ ~h.kept => h.form = "changeUserPassInfoWin"
  BY <1>1, <1>3 DEF AnyAnswer, DoneOrError, DoneOrFailure
<1>9. \A h \in Savers("roles") :
        "change_config_value" \in FieldsOf(h) =>
          "roles" = "sysConfig" /\ h.form = "changeConfigValueWin"
  BY <1>1 DEF Saver, FieldsOf, SaveNewRole, YesRemoveRole, SaveChangeRole, SaveChangeRoleAuth
<1>10. \A h, g \in Savers("roles") : h.form = g.form => h = g
  BY <1>1, <1>3
<1> QED
  BY <1>5, <1>6, <1>7, <1>8, <1>9, <1>10 DEF HandlersRight, SavesRight

LEMMA UsersHandlers == HandlersRight("users")
<1>1. /\ Openers("users") = {AddNewUser, UpdateUser, ChangeUserPassInfo, RemoveUser}
      /\ Askers("users") = {ShowUser, UpdateUserInfo, SetUserRole}
      /\ Savers("users") = {SaveNewUser, SaveChangeUser, SaveUserPassInfo, SaveUserRoleInfo,
         YesRemoveUser}
  BY DEF Openers, Askers, Savers
<1>2. /\ AddNewUser.form = "addNewUserWin" /\ AddNewUser.at = Page
      /\ UpdateUser.form = "userInfoChangeWin" /\ UpdateUser.at = Page
      /\ ChangeUserPassInfo.form = "changeUserPassInfoWin"
      /\ ChangeUserPassInfo.at = "userInfoChangeWin"
      /\ RemoveUser.form = "removeUserConfirm" /\ RemoveUser.at = Page
      /\ ShowUser.form = "userInfoWin" /\ ShowUser.at = Page /\ ~ShowUser.late
      /\ UpdateUserInfo.form = "changeUserWin"
      /\ UpdateUserInfo.at = "userInfoChangeWin" /\ ~UpdateUserInfo.late
      /\ SetUserRole.form = "changeUserRoleInfoWin"
      /\ SetUserRole.at = "userInfoChangeWin" /\ SetUserRole.late
  BY DEF Opener, Asker, Page,
         AddNewUser, UpdateUser, ChangeUserPassInfo, RemoveUser, ShowUser,
         UpdateUserInfo, SetUserRole
<1>3. /\ SaveNewUser.form = "addNewUserWin" /\ ~SaveNewUser.kept
      /\ SaveNewUser.enables /\ SaveNewUser.reload = "pageTurn"
      /\ SaveChangeUser.form = "changeUserWin" /\ ~SaveChangeUser.kept
      /\ SaveChangeUser.enables /\ SaveChangeUser.reload = "pageTurn"
      /\ SaveUserPassInfo.form = "changeUserPassInfoWin"
      /\ ~SaveUserPassInfo.kept /\ ~SaveUserPassInfo.enables
      /\ SaveUserPassInfo.reload = "pageTurn"
      /\ SaveUserPassInfo.answers = DoneOrError
      /\ SaveUserRoleInfo.form = "changeUserRoleInfoWin"
      /\ ~SaveUserRoleInfo.kept /\ SaveUserRoleInfo.enables
      /\ SaveUserRoleInfo.reload = "pageTurn"
      /\ YesRemoveUser.form = "removeUserConfirm" /\ ~YesRemoveUser.kept
      /\ ~YesRemoveUser.enables /\ YesRemoveUser.reload = "pageTurn"
      /\ YesRemoveUser.answers = DoneOrFailure
  BY DEF Saver, SaveNewUser, SaveChangeUser, SaveUserPassInfo, SaveUserRoleInfo,
         YesRemoveUser
<1>4. /\ "addNewUserWin" \in FormsOf("users")
      /\ "userInfoChangeWin" \in FormsOf("users")
      /\ "changeUserPassInfoWin" \in FormsOf("users")
      /\ "removeUserConfirm" \in FormsOf("users")
      /\ "userInfoWin" \in FormsOf("users")
      /\ "changeUserWin" \in FormsOf("users")
      /\ "changeUserRoleInfoWin" \in FormsOf("users")
  BY <1>1, <1>2 DEF FormsOf
<1>5. OpensRight("users")
  BY <1>1, <1>2, <1>4 DEF OpensRight, Page, Growl
<1>6. AsksRight("users")
  BY <1>1, <1>2, <1>4 DEF AsksRight
<1>7. \A h \in Savers("users") :
        /\ h.form \in FormsOf("users")
        /\ h.reload \in Reloads \cup {"none"} /\ (~h.kept => h.reload # "none")
  BY <1>1, <1>3, <1>4 DEF Reloads
<1>8. \A h \in Savers("users") :
        "error" \in h.answers /\ ~h.enables /\ ~h.kept => h.form = "changeUserPassInfoWin"
  BY <1>1, <1>3 DEF AnyAnswer, DoneOrError, DoneOrFailure
<1>9. \A h \in Savers("users") :
        "change_config_value" \in FieldsOf(h) =>
          "users" = "sysConfig" /\ h.form = "changeConfigValueWin"
  BY <1>1 DEF Saver, FieldsOf, SaveNewUser, SaveChangeUser, SaveUserPassInfo, SaveUserRoleInfo,
         YesRemoveUser
<1>10. \A h, g \in Savers("users") : h.form = g.form => h = g
  BY <1>1, <1>3
<1> QED
  BY <1>5, <1>6, <1>7, <1>8, <1>9, <1>10 DEF HandlersRight, SavesRight

LEMMA MaterialsHandlers == HandlersRight("materials")
<1>1. /\ Openers("materials") = {AddNewMaterial, RemoveMaterial}
      /\ Askers("materials") = {ShowMaterial, EditMaterial}
      /\ Savers("materials") = {SaveNewMaterial, YesRemoveMaterial, SaveChangeMaterial}
  BY DEF Openers, Askers, Savers
<1>2. /\ AddNewMaterial.form = "addNewMaterialInfoWin"
      /\ AddNewMaterial.at = Page
      /\ RemoveMaterial.form = "removeMaterialInfoConfirm"
      /\ RemoveMaterial.at = Page /\ ShowMaterial.form = "showMaterialInfoWin"
      /\ ShowMaterial.at = Page /\ ~ShowMaterial.late
      /\ EditMaterial.form = "editMaterialInfoWin" /\ EditMaterial.at = Page
      /\ ~EditMaterial.late
  BY DEF Opener, Asker, Page,
         AddNewMaterial, RemoveMaterial, ShowMaterial, EditMaterial
<1>3. /\ SaveNewMaterial.form = "addNewMaterialInfoWin"
      /\ ~SaveNewMaterial.kept /\ SaveNewMaterial.enables
      /\ SaveNewMaterial.reload = "delay"
      /\ YesRemoveMaterial.form = "removeMaterialInfoConfirm"
      /\ ~YesRemoveMaterial.kept /\ ~YesRemoveMaterial.enables
      /\ YesRemoveMaterial.reload = "delay"
      /\ YesRemoveMaterial.answers = DoneOrFailure
      /\ SaveChangeMaterial.form = "editMaterialInfoWin"
      /\ ~SaveChangeMaterial.kept /\ SaveChangeMaterial.enables
      /\ SaveChangeMaterial.reload = "delay"
  BY DEF Saver, SaveNewMaterial, YesRemoveMaterial, SaveChangeMaterial
<1>4. /\ "addNewMaterialInfoWin" \in FormsOf("materials")
      /\ "removeMaterialInfoConfirm" \in FormsOf("materials")
      /\ "showMaterialInfoWin" \in FormsOf("materials")
      /\ "editMaterialInfoWin" \in FormsOf("materials")
  BY <1>1, <1>2 DEF FormsOf
<1>5. OpensRight("materials")
  BY <1>1, <1>2, <1>4 DEF OpensRight, Page, Growl
<1>6. AsksRight("materials")
  BY <1>1, <1>2 DEF AsksRight
<1>7. \A h \in Savers("materials") :
        /\ h.form \in FormsOf("materials")
        /\ h.reload \in Reloads \cup {"none"} /\ (~h.kept => h.reload # "none")
  BY <1>1, <1>3, <1>4 DEF Reloads
<1>8. \A h \in Savers("materials") :
        "error" \in h.answers /\ ~h.enables /\ ~h.kept => h.form = "changeUserPassInfoWin"
  BY <1>1, <1>3 DEF AnyAnswer, DoneOrError, DoneOrFailure
<1>9. \A h \in Savers("materials") :
        "change_config_value" \in FieldsOf(h) =>
          "materials" = "sysConfig" /\ h.form = "changeConfigValueWin"
  BY <1>1 DEF Saver, FieldsOf, SaveNewMaterial, YesRemoveMaterial, SaveChangeMaterial
<1>10. \A h, g \in Savers("materials") : h.form = g.form => h = g
  BY <1>1, <1>3
<1> QED
  BY <1>5, <1>6, <1>7, <1>8, <1>9, <1>10 DEF HandlersRight, SavesRight

LEMMA MockDataHandlers == HandlersRight("mockData")
<1>1. /\ Openers("mockData") = {AddNewMockData, RemoveMockData}
      /\ Askers("mockData") = {ShowMockData, EditMockData}
      /\ Savers("mockData") = {SaveNewMockData, YesRemoveMockData, SaveChangeMockData}
  BY DEF Openers, Askers, Savers
<1>2. /\ AddNewMockData.form = "addNewMockDataWin" /\ AddNewMockData.at = Page
      /\ RemoveMockData.form = "removeMockDataConfirm"
      /\ RemoveMockData.at = Page /\ ShowMockData.form = "showMockDataWin"
      /\ ShowMockData.at = Page /\ ~ShowMockData.late
      /\ EditMockData.form = "editMockDataWin" /\ EditMockData.at = Page
      /\ ~EditMockData.late
  BY DEF Opener, Asker, Page,
         AddNewMockData, RemoveMockData, ShowMockData, EditMockData
<1>3. /\ SaveNewMockData.form = "addNewMockDataWin" /\ ~SaveNewMockData.kept
      /\ SaveNewMockData.enables /\ SaveNewMockData.reload = "delay"
      /\ YesRemoveMockData.form = "removeMockDataConfirm"
      /\ ~YesRemoveMockData.kept /\ ~YesRemoveMockData.enables
      /\ YesRemoveMockData.reload = "delay"
      /\ YesRemoveMockData.answers = DoneOrFailure
      /\ SaveChangeMockData.form = "editMockDataWin"
      /\ ~SaveChangeMockData.kept /\ SaveChangeMockData.enables
      /\ SaveChangeMockData.reload = "delay"
  BY DEF Saver, SaveNewMockData, YesRemoveMockData, SaveChangeMockData
<1>4. /\ "addNewMockDataWin" \in FormsOf("mockData")
      /\ "removeMockDataConfirm" \in FormsOf("mockData")
      /\ "showMockDataWin" \in FormsOf("mockData")
      /\ "editMockDataWin" \in FormsOf("mockData")
  BY <1>1, <1>2 DEF FormsOf
<1>5. OpensRight("mockData")
  BY <1>1, <1>2, <1>4 DEF OpensRight, Page, Growl
<1>6. AsksRight("mockData")
  BY <1>1, <1>2 DEF AsksRight
<1>7. \A h \in Savers("mockData") :
        /\ h.form \in FormsOf("mockData")
        /\ h.reload \in Reloads \cup {"none"} /\ (~h.kept => h.reload # "none")
  BY <1>1, <1>3, <1>4 DEF Reloads
<1>8. \A h \in Savers("mockData") :
        "error" \in h.answers /\ ~h.enables /\ ~h.kept => h.form = "changeUserPassInfoWin"
  BY <1>1, <1>3 DEF AnyAnswer, DoneOrError, DoneOrFailure
<1>9. \A h \in Savers("mockData") :
        "change_config_value" \in FieldsOf(h) =>
          "mockData" = "sysConfig" /\ h.form = "changeConfigValueWin"
  BY <1>1 DEF Saver, FieldsOf, SaveNewMockData, YesRemoveMockData, SaveChangeMockData
<1>10. \A h, g \in Savers("mockData") : h.form = g.form => h = g
  BY <1>1, <1>3
<1> QED
  BY <1>5, <1>6, <1>7, <1>8, <1>9, <1>10 DEF HandlersRight, SavesRight

LEMMA SysConfigHandlers == HandlersRight("sysConfig")
<1>1. /\ Openers("sysConfig") = {}
      /\ Askers("sysConfig") = {ShowSysConfig, UpdateSysConfig}
      /\ Savers("sysConfig") = {SaveChangeConfigValue}
  BY DEF Openers, Askers, Savers
<1>2. /\ ShowSysConfig.form = "sysConfigInfoShowWin" /\ ShowSysConfig.at = Page
      /\ ~ShowSysConfig.late /\ ShowSysConfig.fills = {}
      /\ UpdateSysConfig.form = "changeConfigValueWin"
      /\ UpdateSysConfig.at = Page /\ ~UpdateSysConfig.late
      /\ UpdateSysConfig.fills = {"change_config_value"}
  BY DEF Opener, Asker, Page,
         ShowSysConfig, UpdateSysConfig
<1>3. /\ SaveChangeConfigValue.form = "changeConfigValueWin"
      /\ ~SaveChangeConfigValue.kept /\ SaveChangeConfigValue.enables
      /\ SaveChangeConfigValue.reload = "href"
  BY DEF Saver, SaveChangeConfigValue
<1>4. /\ "sysConfigInfoShowWin" \in FormsOf("sysConfig")
      /\ "changeConfigValueWin" \in FormsOf("sysConfig")
  BY <1>1, <1>2 DEF FormsOf
<1>5. OpensRight("sysConfig")
  BY <1>1, <1>2, <1>4 DEF OpensRight, Page, Growl
<1>6. AsksRight("sysConfig")
  BY <1>1, <1>2 DEF AsksRight
<1>7. \A h \in Savers("sysConfig") :
        /\ h.form \in FormsOf("sysConfig")
        /\ h.reload \in Reloads \cup {"none"} /\ (~h.kept => h.reload # "none")
  BY <1>1, <1>3, <1>4 DEF Reloads
<1>8. \A h \in Savers("sysConfig") :
        "error" \in h.answers /\ ~h.enables /\ ~h.kept => h.form = "changeUserPassInfoWin"
  BY <1>1, <1>3 DEF AnyAnswer, DoneOrError, DoneOrFailure
<1>9. \A h \in Savers("sysConfig") :
        "change_config_value" \in FieldsOf(h) =>
          "sysConfig" = "sysConfig" /\ h.form = "changeConfigValueWin"
  BY <1>1 DEF Saver, FieldsOf, SaveChangeConfigValue
<1>10. \A h, g \in Savers("sysConfig") : h.form = g.form => h = g
  BY <1>1, <1>3
<1> QED
  BY <1>5, <1>6, <1>7, <1>8, <1>9, <1>10 DEF HandlersRight, SavesRight

LEMMA AllHandlersRight == ASSUME NEW p PROVE HandlersRight(p)
<1>1. CASE p \in {"home", "roles", "users", "materials", "mockData", "sysConfig"}
  BY <1>1, HomeHandlers, RolesHandlers, UsersHandlers, MaterialsHandlers, MockDataHandlers, SysConfigHandlers
<1>2. CASE p \notin {"home", "roles", "users", "materials", "mockData", "sysConfig"}
  BY <1>2 DEF HandlersRight, OpensRight, AsksRight, SavesRight, Openers, Askers, Savers
<1> QED
  BY <1>1, <1>2

LEMMA PageWindowsRight ==
  ASSUME NEW p \in Pages
  PROVE  WindowsOf(p) \subseteq Windows /\ Growl \notin WindowsOf(p)
<1>1. \A h \in Openers(p) \cup Askers(p) : h.form # Growl
  BY AllHandlersRight DEF HandlersRight, OpensRight
<1>2. Growl \notin FormsOf(p)
  BY <1>1 DEF FormsOf
<1>3. Growl \notin CommonWindows
  BY DEF CommonWindows, Growl
<1> QED
  BY <1>2, <1>3, FormsAssumption DEF WindowsOf

(* Calm windows are not lost.                                              *)
KeepsWindows(u) ==
  u.overlap \/
    /\ ~Stuck(u)
    /\ \A w \in DOMAIN u.place :
         LET note == [el |-> w, parent |-> Home]
         IN \/ u.place[w] = Home
            \/ u.place[w] = u.block /\ u.history = note
            \/ \E f \in Range(u.fades) : u.place[w] \in f.els /\ f.note = note

LEMMA CalmLosesNothing ==
  ASSUME NEW ws, NEW u, UiInv(u, ws)
  PROVE  KeepsWindows(u)
<1> SUFFICES ASSUME ~ u.overlap
             PROVE  /\ ~Stuck(u)
                    /\ \A w \in DOMAIN u.place :
                         LET note == [el |-> w, parent |-> Home]
                         IN \/ u.place[w] = Home
                            \/ u.place[w] = u.block /\ u.history = note
                            \/ \E f \in Range(u.fades) :
                                 u.place[w] \in f.els /\ f.note = note
  BY DEF KeepsWindows
<1>1. DOMAIN u.place = ws /\ u.fades \in Seq(Fades) /\ Calm(u)
  BY DEF UiInv
<1>2. CASE Hidden(u)
  <2>1. Overlays(u) = <<>>
    BY <1>2, NoneLeft DEF Overlays, Hidden
  <2> QED
    BY <1>2, <2>1 DEF Stuck, PageClickable, Hidden
<1>3. ASSUME NEW l \in Layers, u.stack = <<l>>, Carries(u, l),
             Stands(u, l) \/ GoesWithFades(u, l)
      PROVE  /\ ~Stuck(u)
             /\ \A w \in DOMAIN u.place :
                  LET note == [el |-> w, parent |-> Home]
                  IN \/ u.place[w] = Home
                     \/ u.place[w] = u.block /\ u.history = note
                     \/ \E f \in Range(u.fades) :
                          u.place[w] \in f.els /\ f.note = note
  <2>1. Overlays(u) = IF l \in {u.growl} THEN <<>> ELSE <<l>>
    BY <1>3, OneLeft DEF Overlays
  <2>2. CASE u.growl = l /\ \A w \in DOMAIN u.place : u.place[w] = Home
    BY <2>1, <2>2 DEF Stuck, PageClickable
  <2>3. ASSUME u.growl = Null, NEW w \in DOMAIN u.place,
               u.history = [el |-> w, parent |-> Home],
               \A x \in DOMAIN u.place : u.place[x] = IF x = w THEN l ELSE Home
        PROVE  /\ ~Stuck(u)
               /\ u.place[w] = u.block \/ \E f \in Range(u.fades) :
                    u.place[w] \in f.els /\ f.note = [el |-> w, parent |-> Home]
    <3>1. Overlays(u) = <<l>> /\ Last(<<l>>) = l /\ <<l>> # <<>>
      BY <2>1, <2>3, LayersAreNumbers DEF Last
    <3>2. ~Stuck(u)
      BY <2>3, <3>1 DEF Stuck, InFront
    <3>3. CASE Stands(u, l)
      BY <2>3, <3>2, <3>3 DEF Stands
    <3>4. CASE GoesWithFades(u, l)
      <4>1. u.fades # <<>> /\ \A f \in Range(u.fades) : f.els = {l} /\ f.note = u.history
        BY <3>4 DEF GoesWithFades
      <4>2. PICK f : f \in Range(u.fades)
        <5>1. 1 \in DOMAIN u.fades
          BY <1>1, <4>1
        <5> QED
          BY <5>1 DEF Range
      <4> QED
        BY <2>3, <3>2, <4>1, <4>2
    <3> QED
      BY <1>3, <3>3, <3>4
  <2> QED
    BY <1>3, <2>2, <2>3 DEF Carries
<1> QED
  BY <1>1, <1>2, <1>3 DEF Calm

LEMMA PagesStart == Init => PageInv
<1> SUFFICES ASSUME Init PROVE PageInv
  OBVIOUS
<1>1. UiInv(ui, WindowsOf(page))
  BY LoadedCalm DEF Init, PageLoaded, WindowsOf
<1>2. LostOnlyByOverlap
  BY <1>1, CalmLosesNothing DEF KeepsWindows, LostOnlyByOverlap
<1>3. PageTypes
  BY DEF Init, PageTypes, NoRows, GoodValues, Rows
<1>4. SameRow /\ FileValueGood
  BY DEF Init, SameRow, FileValueGood, NoRows, GoodValues, Fields, SysConfigFields
<1> QED
  BY <1>1, <1>2, <1>3, <1>4 DEF Init, PageInv, Range

-----------------------------------------------------------------------------
(* What the parts of a step do.                                            *)
LEMMA Appended ==
  ASSUME NEW S, NEW s \in Seq(S), NEW x \in S
  PROVE  /\ Append(s, x) \in Seq(S) /\ Append(s, x) # <<>>
         /\ Len(Append(s, x)) = Len(s) + 1
         /\ Range(Append(s, x)) = Range(s) \cup {x}
<1>1. PICK r : r = Append(s, x)
  OBVIOUS
<1>2. /\ r \in Seq(S) /\ Len(r) = Len(s) + 1 /\ Len(s) \in Nat
      /\ \A k \in 1 .. Len(s) : r[k] = s[k]
      /\ r[Len(s) + 1] = x
  BY <1>1
<1>3. DOMAIN r = 1 .. Len(s) + 1 /\ DOMAIN s = 1 .. Len(s)
  BY <1>2
<1>4. Range(r) = Range(s) \cup {x}
  BY <1>2, <1>3 DEF Range
<1> QED
  BY <1>1, <1>2, <1>4

(* A step that stays on the page, part by part.                            *)
LEMMA PageStays ==
  ASSUME page \in Pages, page' = page, PageTypes', UiInv(ui', WindowsOf(page)),
         SameRow', FileValueGood',
         \A a \in Range(asks') : SaveRight(a),
         \A form \in off' : Explained(form)'
  PROVE  PageInv'
<1>1. LostOnlyByOverlap'
  BY CalmLosesNothing DEF LostOnlyByOverlap, KeepsWindows
<1>2. UiInv(ui, WindowsOf(page))'
  BY DEF WindowsOf, FormsOf
<1> QED
  BY <1>1, <1>2 DEF PageInv

(* A window of the page opens.                                             *)
LEMMA WindowOpens ==
  ASSUME page \in Pages, NEW u, UiInv(u, WindowsOf(page)),
         NEW w \in WindowsOf(page), NEW r, r = Install(u, w)
  PROVE  /\ UiInv(r, WindowsOf(page)) /\ r.fades = u.fades
         /\ u.overlap => r.overlap
         /\ u.overlap \/ CanInstall(u, w)
         /\ r.overlap => u.overlap \/ u.fades # <<>>
BY PageWindowsRight, InstallCalm

LEMMA CommonOnPage ==
  /\ "operResultWin" \in WindowsOf(page) /\ "sessionTimeoutConfirm" \in WindowsOf(page)
  /\ "handleWating" \in WindowsOf(page)
BY DEF WindowsOf, CommonWindows

(* A form keeps the reason of its dead button when what it may rest on     *)
(* stays.                                                                  *)
LEMMA ReasonStays ==
  ASSUME NEW form, Explained(form),
         form \in failed => form \in failed',
         timers # <<>> => timers' # <<>>,
         \A a \in Range(asks) : a.kind = "save" /\ a.h.form = form => a \in Range(asks'),
         ui.overlap \/ \A f \in Range(ui.fades) : f.then # Null => f \in Range(ui'.fades),
         ui.overlap => ui'.overlap
  PROVE  Explained(form)'
BY DEF Explained

(* A fade is added to those under way.                                     *)
LEMMA FadeAdded ==
  ASSUME NEW ws, ws \subseteq Windows, NEW u, UiInv(u, ws), ~u.overlap,
         NEW then \in Reloads \cup {Null}, NEW r, r = RemoveFading(u, then)
  PROVE  /\ \A f \in Range(u.fades) : f \in Range(r.fades)
         /\ \E f \in Range(r.fades) : f.then = then
<1>1. PICK f : f = Fade(LayersOf(u), u.history, then)
  OBVIOUS
<1>2. f.then = then
  BY <1>1 DEF Fade
<1>3. r.overlap = u.overlap /\ UiInv(r, ws) /\ r.fades = Append(u.fades, f)
  BY <1>1, RemoveFadingCalm, ZenonT(60)
<1>4. u.fades \in Seq(Fades) /\ r.fades \in Seq(Fades)
  BY <1>3 DEF UiInv
<1>5. f = r.fades[Len(u.fades) + 1] /\ Len(u.fades) + 1 \in DOMAIN r.fades
  BY <1>3, <1>4
<1>6. f \in Fades
  BY <1>4, <1>5
<1> QED
  BY <1>2, <1>3, <1>4, <1>6, Appended

(* The forms are as they were.                                             *)
LEMMA FormsStay ==
  ASSUME PageTypes, SameRow, FileValueGood, page' = page,
         UNCHANGED <<id, shown, file, val>>,
         timers' \in Seq(Reloads), asks' \in Seq(Asks(page)),
         \A form \in off' \ off : \E h \in Savers(page) : h.form = form /\ ~h.kept
  PROVE  PageTypes' /\ SameRow' /\ FileValueGood'
BY DEF PageTypes, SameRow, FileValueGood

LEMMA FileFormsAreForms == ASSUME NEW p PROVE FileForms(p) \subseteq FormsOf(p)
<1>1. CASE p \notin {"materials", "sysConfig"}
  BY <1>1 DEF FileForms
<1>2. CASE p = "materials"
  <2>1. AddNewMaterial \in Openers(p) /\ EditMaterial \in Askers(p)
    BY <1>2 DEF Openers, Askers
  <2>2. AddNewMaterial.form = "addNewMaterialInfoWin"
        /\ EditMaterial.form = "editMaterialInfoWin"
    BY DEF AddNewMaterial, EditMaterial, Opener, Asker
  <2> QED
    BY <1>2, <2>1, <2>2 DEF FileForms, FormsOf
<1>3. CASE p = "sysConfig"
  <2>1. UpdateSysConfig \in Askers(p)
    BY <1>3 DEF Askers
  <2>2. UpdateSysConfig.form = "changeConfigValueWin"
    BY DEF UpdateSysConfig, Asker
  <2> QED
    BY <1>3, <2>1, <2>2 DEF FileForms, FormsOf
<1> QED
  BY <1>1, <1>2, <1>3

(* The row a click is about.                                               *)
LEMMA RowIsRow ==
  ASSUME NEW row \in Recs \cup {New}
  PROVE  row \in Rows /\ Null \in Rows
BY DEF Rows


-----------------------------------------------------------------------------
(* What the user does.                                                     *)
LEMMA FormOpens ==
  ASSUME PageInv, page # Null, page' = page,
         NEW h, h.form \in FormsOf(page), NEW marks, OpenForm(h, marks),
         UNCHANGED timers, \A a \in Range(asks) : a.kind = "save" => a \in Range(asks')
  PROVE  /\ UiInv(ui', WindowsOf(page)) /\ off' \subseteq off
         /\ \A form \in off' : Explained(form)'
<1>1. page \in Pages /\ UiInv(ui, WindowsOf(page)) /\ \A form \in off : Explained(form)
  BY DEF PageInv, PageTypes
<1>2. h.form \in WindowsOf(page) /\ ui' = Install(ui, h.form)
  BY DEF WindowsOf, OpenForm
<1>3. UiInv(ui', WindowsOf(page)) /\ ui'.fades = ui.fades /\ (ui.overlap => ui'.overlap)
  BY <1>1, <1>2, WindowOpens
<1>4. off' \subseteq off /\ \A form \in off' : form \in failed => form \in failed'
  BY DEF OpenForm
<1>5. ASSUME NEW form \in off' PROVE Explained(form)'
  BY <1>1, <1>3, <1>4, <1>5, ReasonStays
<1> QED
  BY <1>3, <1>4, <1>5

LEMMA ClickOpenerKeeps ==
  ASSUME PageInv, page # Null, NEW h \in Openers(page), NEW row \in Recs \cup {New},
         ClickOpener(h, row)
  PROVE  PageInv'
<1>1. PageTypes /\ SameRow /\ FileValueGood /\ page' = page
  BY DEF PageInv, ClickOpener, UserActs
<1>2. h.form \in FormsOf(page)
  BY DEF FormsOf
<1>3. /\ UiInv(ui', WindowsOf(page)) /\ off' \subseteq off
      /\ \A form \in off' : Explained(form)'
  BY <1>1, <1>2, FormOpens DEF ClickOpener
<1>4. PageTypes'
  <2>1. row \in Rows /\ Null \in Rows
    BY RowIsRow
  <2>2. /\ id' = [id EXCEPT ![h.form] = row] /\ shown' = [shown EXCEPT ![h.form] = row]
        /\ file' = [f \in DOMAIN file |-> IF f = h.form THEN Null ELSE file[f]]
        /\ val' = [f \in DOMAIN val |-> IF f \in h.bad THEN "bad"
                     ELSE IF f \in h.good THEN (IF f \in Emails THEN "empty" ELSE "good")
                     ELSE val[f]]
        /\ UNCHANGED <<timers, asks>>
    BY DEF ClickOpener
  <2>3. id' \in [FormsOf(page) -> Rows] /\ shown' \in [FormsOf(page) -> Rows]
    BY <1>1, <2>1, <2>2 DEF PageTypes
  <2>4. file' \in [FileForms(page) -> Rows]
    BY <1>1, <2>1, <2>2 DEF PageTypes
  <2>5. val' \in [Fields(page) -> {"good", "bad", "empty"}]
    BY <1>1, <2>2 DEF PageTypes
  <2> QED
    BY <1>1, <1>3, <2>2, <2>3, <2>4, <2>5 DEF PageTypes
<1>5. SameRow' /\ FileValueGood'
  <2>1. SameRow'
    BY <1>1, <1>2 DEF ClickOpener, SameRow, PageTypes
  <2>2. page # "sysConfig"
    BY DEF Openers
  <2> QED
    BY <1>1, <2>1, <2>2 DEF FileValueGood
<1>6. \A a \in Range(asks') : SaveRight(a)
  BY DEF ClickOpener, PageInv
<1> QED
  BY <1>1, <1>3, <1>4, <1>5, <1>6, PageStays DEF PageTypes

LEMMA ClickAskerKeeps ==
  ASSUME PageInv, page # Null, NEW h \in Askers(page), NEW row \in Recs \cup {New},
         ClickAsker(h, row)
  PROVE  PageInv'
<1>1. /\ PageTypes /\ SameRow /\ FileValueGood /\ page' = page
      /\ UiInv(ui, WindowsOf(page)) /\ \A form \in off : Explained(form)
  BY DEF PageInv, ClickAsker, UserActs
<1>2. UNCHANGED <<ui, timers, id, shown, file, val, off, failed>>
  BY DEF ClickAsker, formVars
<1>3. PICK a : a = [kind |-> "show", h |-> h, row |-> row]
  OBVIOUS
<1>4. a \in Asks(page) /\ SaveRight(a)
  BY <1>3, RowIsRow DEF Asks, ShowAsks, SaveRight
<1>5. asks' = Append(asks, a)
  BY <1>3 DEF ClickAsker
<1>6. asks' \in Seq(Asks(page)) /\ Range(asks') = Range(asks) \cup {a}
  BY <1>1, <1>4, <1>5, Appended DEF PageTypes
<1>7. PageTypes' /\ SameRow' /\ FileValueGood'
  <2>1. timers' \in Seq(Reloads)
    BY <1>1, <1>2 DEF PageTypes
  <2> QED
    BY <1>1, <1>2, <1>6, <2>1, FormsStay
<1>8. ASSUME NEW form \in off' PROVE Explained(form)'
  <2>1. Explained(form)
    BY <1>1, <1>2
  <2> QED
    BY <1>2, <1>6, <2>1, ReasonStays
<1>9. \A b \in Range(asks') : SaveRight(b)
  BY <1>4, <1>6 DEF PageInv
<1> QED
  BY <1>1, <1>2, <1>7, <1>8, <1>9, PageStays DEF PageTypes

LEMMA TypeKeeps ==
  ASSUME PageInv, page # Null, NEW h \in Savers(page), NEW f \in FieldsOf(h),
         NEW v \in {"good", "bad", "empty"}, Type(h, f, v)
  PROVE  PageInv'
<1>1. /\ PageTypes /\ SameRow /\ FileValueGood /\ page' = page
      /\ UiInv(ui, WindowsOf(page)) /\ \A form \in off : Explained(form)
  BY DEF PageInv, Type, UserActs
<1>2. /\ UNCHANGED <<ui, timers, asks, id, shown, file, off, failed>>
      /\ val' = [val EXCEPT ![f] = v]
      /\ v = "bad" => Checked(f, shown[h.form])
  BY DEF Type
<1>3. PageTypes' /\ SameRow'
  BY <1>1, <1>2 DEF PageTypes, SameRow
<1>4. FileValueGood'
  <2>1. f = "change_config_value" => h.form = "changeConfigValueWin"
    BY AllHandlersRight DEF HandlersRight, SavesRight
  <2> QED
    BY <1>1, <1>2, <2>1 DEF FileValueGood, Checked, PageTypes
<1>5. ASSUME NEW form \in off' PROVE Explained(form)'
  <2>1. Explained(form)
    BY <1>1, <1>2
  <2> QED
    BY <1>2, <2>1, ReasonStays
<1>6. \A b \in Range(asks') : SaveRight(b)
  BY <1>2 DEF PageInv
<1> QED
  BY <1>1, <1>2, <1>3, <1>4, <1>5, <1>6, PageStays DEF PageTypes


(* What a save that is not refused sends has passed the checks it looks at, *)
(* but for the fields it does not check again.                             *)
LEMMA SentPassed ==
  ASSUME FileValueGood, NEW h \in Savers(page), ~Refused(h)
  PROVE  {f \in h.tests : val[f] = "bad"} \subseteq Unchecked(h)
<1> SUFFICES ASSUME NEW f \in h.tests, val[f] = "bad", f \in h.blurs, f \notin Emails
             PROVE  FALSE
  BY DEF Unchecked
<1>1. f \notin MarksAtSave(h)
  BY DEF Refused
<1>2. Checked(f, shown[h.form])
  <2>1. f = "change_config_value" =>
          page = "sysConfig" /\ h.form = "changeConfigValueWin"
    BY AllHandlersRight DEF HandlersRight, SavesRight, FieldsOf
  <2> QED
    BY <2>1 DEF FileValueGood, Checked
<1> QED
  BY <1>1, <1>2 DEF MarksAtSave, Blur

LEMMA ClickSaveKeeps ==
  ASSUME PageInv, page # Null, NEW h \in Savers(page), ClickSave(h)
  PROVE  PageInv'
<1>1. /\ PageTypes /\ SameRow /\ FileValueGood /\ page' = page
      /\ UiInv(ui, WindowsOf(page)) /\ \A form \in off : Explained(form)
      /\ \A a \in Range(asks) : SaveRight(a)
  BY DEF PageInv, ClickSave, UserActs
<1>2. UNCHANGED <<ui, timers, id, shown, file, val, failed>>
  BY DEF ClickSave
<1>3. h.form \in FormsOf(page)
  BY AllHandlersRight DEF HandlersRight, SavesRight
<1>4. CASE Refused(h)
  <2>1. UNCHANGED <<asks, off>>
    BY <1>4 DEF ClickSave
  <2>2. PageTypes' /\ SameRow' /\ FileValueGood'
    BY <1>1, <1>2, <2>1, FormsStay DEF PageTypes
  <2>3. ASSUME NEW form \in off' PROVE Explained(form)'
    <3>1. Explained(form)
      BY <1>1, <2>1
    <3> QED
      BY <1>2, <2>1, <3>1, ReasonStays
  <2> QED
    BY <1>1, <1>2, <2>1, <2>2, <2>3, PageStays DEF PageTypes
<1>5. CASE ~Refused(h)
  <2>1. PICK a : a = [kind |-> "save", h |-> h, row |-> id[h.form],
                      of |-> shown[h.form],
                      file |-> IF h.form \in DOMAIN file THEN file[h.form] ELSE Null,
                      bad |-> {f \in h.tests : val[f] = "bad"}]
    OBVIOUS
  <2>2. asks' = Append(asks, a) /\ off' = IF h.kept THEN off ELSE off \cup {h.form}
    BY <1>5, <2>1 DEF ClickSave
  <2>3. a \in Asks(page)
    <3>1. id[h.form] \in Rows /\ shown[h.form] \in Rows
      BY <1>1, <1>3 DEF PageTypes
    <3>2. (IF h.form \in DOMAIN file THEN file[h.form] ELSE Null) \in Rows
      BY <1>1 DEF PageTypes, Rows
    <3>3. a \in [kind : {"save"}, h : {h}, row : Rows, of : Rows, file : Rows,
                 bad : SUBSET h.tests]
      BY <2>1, <3>1, <3>2
    <3>4. a \in SaveAsks(page)
      BY <3>3 DEF SaveAsks
    <3> QED
      BY <3>4 DEF Asks
  <2>4. SaveRight(a)
    <3>1. a.h = h /\ a.row = id[h.form] /\ a.of = shown[h.form]
          /\ a.bad = {f \in h.tests : val[f] = "bad"}
      BY <2>1
    <3>2. a.bad \subseteq Unchecked(a.h)
      BY <1>1, <1>5, <3>1, SentPassed
    <3>3. a.row # a.of => h.form = "changeUserRoleInfoWin"
      BY <1>1, <1>3, <3>1 DEF SameRow
    <3> QED
      BY <3>1, <3>2, <3>3 DEF SaveRight
  <2>5. asks' \in Seq(Asks(page)) /\ Range(asks') = Range(asks) \cup {a}
    BY <1>1, <2>2, <2>3, Appended DEF PageTypes
  <2>6. PageTypes' /\ SameRow' /\ FileValueGood'
    <3>1. \A form \in off' \ off : \E g \in Savers(page) : g.form = form /\ ~g.kept
      BY <2>2
    <3>2. timers' \in Seq(Reloads)
      BY <1>1, <1>2 DEF PageTypes
    <3> QED
      BY <1>1, <1>2, <2>5, <3>1, <3>2, FormsStay
  <2>7. ASSUME NEW form \in off' PROVE Explained(form)'
    <3>1. CASE form \in off
      <4>1. Explained(form)
        BY <1>1, <3>1
      <4> QED
        BY <1>2, <2>5, <4>1, ReasonStays
    <3>2. CASE form \notin off
      <4>1. form = h.form
        BY <2>2, <3>2
      <4>2. a \in Range(asks') /\ a.kind = "save" /\ a.h.form = form
        BY <2>1, <2>5, <4>1
      <4> QED
        BY <4>2 DEF Explained
    <3> QED
      BY <3>1, <3>2
  <2>8. \A b \in Range(asks') : SaveRight(b)
    BY <1>1, <2>4, <2>5
  <2> QED
    BY <1>1, <1>2, <2>6, <2>7, <2>8, PageStays DEF PageTypes
<1> QED
  BY <1>4, <1>5

LEMMA ClickUploadKeeps ==
  ASSUME PageInv, page # Null, NEW form \in FileForms(page), ClickUpload(form)
  PROVE  PageInv'
<1>1. /\ PageTypes /\ SameRow /\ FileValueGood /\ page' = page
      /\ UiInv(ui, WindowsOf(page)) /\ \A g \in off : Explained(g)
      /\ \A a \in Range(asks) : SaveRight(a)
  BY DEF PageInv, ClickUpload, UserActs
<1>2. UNCHANGED <<timers, id, shown, file, val, off, failed>>
  BY DEF ClickUpload, formVars
<1>3. /\ UiInv(ui', WindowsOf(page)) /\ ui'.fades = ui.fades
      /\ (ui.overlap => ui'.overlap)
  BY <1>1, WindowOpens, CommonOnPage DEF ClickUpload, PageTypes
<1>4. asks' \in Seq(Asks(page)) /\ Range(asks) \subseteq Range(asks')
      /\ \A a \in Range(asks') : SaveRight(a)
  <2>1. CASE asks' = asks
    BY <1>1, <2>1 DEF PageTypes
  <2>2. CASE asks' = Append(asks, [kind |-> "upload", form |-> form, row |-> shown[form]])
    <3>1. PICK a : a = [kind |-> "upload", form |-> form, row |-> shown[form]]
      OBVIOUS
    <3>2. shown[form] \in Rows
      BY <1>1, FileFormsAreForms DEF PageTypes
    <3>3. a \in Asks(page) /\ SaveRight(a)
      BY <3>1, <3>2 DEF Asks, UploadAsks, SaveRight
    <3>4. asks' \in Seq(Asks(page)) /\ Range(asks') = Range(asks) \cup {a}
      BY <1>1, <2>2, <3>1, <3>3, Appended DEF PageTypes
    <3> QED
      BY <1>1, <3>3, <3>4
  <2> QED
    BY <2>1, <2>2 DEF ClickUpload
<1>5. PageTypes' /\ SameRow' /\ FileValueGood'
  <2>1. timers' \in Seq(Reloads)
    BY <1>1, <1>2 DEF PageTypes
  <2> QED
    BY <1>1, <1>2, <1>4, <2>1, FormsStay
<1>6. ASSUME NEW g \in off' PROVE Explained(g)'
  <2>1. Explained(g)
    BY <1>1, <1>2
  <2> QED
    BY <1>2, <1>3, <1>4, <2>1, ReasonStays
<1> QED
  BY <1>1, <1>3, <1>4, <1>5, <1>6, PageStays DEF PageTypes

LEMMA CloseKeeps ==
  ASSUME PageInv, page # Null, page' = page, ui' = RemoveFading(ui, Null),
         UNCHANGED <<timers, asks, formVars>>
  PROVE  PageInv'
<1>1. /\ PageTypes /\ SameRow /\ FileValueGood
      /\ UiInv(ui, WindowsOf(page)) /\ \A g \in off : Explained(g)
      /\ \A a \in Range(asks) : SaveRight(a)
  BY DEF PageInv
<1>2. WindowsOf(page) \subseteq Windows
  BY <1>1, PageWindowsRight DEF PageTypes
<1>3. /\ UiInv(ui', WindowsOf(page)) /\ ui'.overlap = ui.overlap
      /\ ui'.fades = Append(ui.fades, Fade(LayersOf(ui), ui.history, Null))
  <2>1. PICK then \in Reloads \cup {Null} : then = Null
    OBVIOUS
  <2> QED
    <3>1. ui' = RemoveFading(ui, then)
      BY <2>1
    <3>2. /\ UiInv(ui', WindowsOf(page)) /\ ui'.overlap = ui.overlap
          /\ ui'.fades = Append(ui.fades, Fade(LayersOf(ui), ui.history, then))
      BY <1>1, <1>2, <3>1, RemoveFadingCalm, ZenonT(60)
    <3> QED
      BY <2>1, <3>2
<1>4. PageTypes' /\ SameRow' /\ FileValueGood'
  BY <1>1, FormsStay DEF PageTypes, formVars
<1>5. ASSUME NEW g \in off' PROVE Explained(g)'
  <2>1. Explained(g) /\ UNCHANGED <<failed, timers, asks>>
    BY <1>1 DEF formVars
  <2>2. ui.overlap \/ \A f \in Range(ui.fades) : f \in Range(ui'.fades)
    <3>1. PICK then \in Reloads \cup {Null} : then = Null
      OBVIOUS
    <3> QED
      BY <1>1, <1>2, <3>1, FadeAdded
  <2> QED
    BY <1>3, <2>1, <2>2, ReasonStays
<1> QED
  BY <1>1, <1>3, <1>4, <1>5, PageStays DEF PageTypes


(* The wait window opens and the search form will be submitted, or windows *)
(* have overlapped.                                                        *)
LEMMA FormSubmitKeeps ==
  ASSUME PageInv, page # Null, NEW u, UiInv(u, WindowsOf(page)), FormSubmit(u)
  PROVE  PageInv'
<1>1. /\ PageTypes /\ SameRow /\ FileValueGood /\ page' = page
      /\ \A a \in Range(asks) : SaveRight(a)
  BY DEF PageInv, FormSubmit
<1>2. UNCHANGED <<asks, id, shown, file, val, mark, off, failed>>
  BY DEF FormSubmit, formVars
<1>3. ui' = Install(u, "handleWating")
  BY DEF FormSubmit
<1>4. /\ UiInv(ui', WindowsOf(page)) /\ (u.overlap => ui'.overlap)
      /\ (u.overlap \/ CanInstall(u, "handleWating"))
  BY <1>1, <1>3, WindowOpens, CommonOnPage DEF PageTypes
<1>5. timers' \in Seq(Reloads) /\ (CanInstall(u, "handleWating") => timers' # <<>>)
  <2>1. timers \in Seq(Reloads) /\ "submit" \in Reloads
    BY <1>1 DEF PageTypes, Reloads
  <2>2. Append(timers, "submit") \in Seq(Reloads) /\ Append(timers, "submit") # <<>>
    BY <2>1, Appended
  <2> QED
    BY <2>1, <2>2 DEF FormSubmit
<1>6. PageTypes' /\ SameRow' /\ FileValueGood'
  BY <1>1, <1>2, <1>5, FormsStay DEF PageTypes
<1>7. ASSUME NEW g \in off' PROVE Explained(g)'
  BY <1>4, <1>5 DEF Explained
<1> QED
  BY <1>1, <1>2, <1>4, <1>6, <1>7, PageStays DEF PageTypes

LEMMA LeaveKeeps ==
  ASSUME PageInv, page # Null, Leave
  PROVE  PageInv'
<1>1. CASE page' = Null /\ UNCHANGED <<visit, ui, timers, asks, formVars>>
  <2>1. UNCHANGED <<ui, timers, asks, off, failed>>
    BY <1>1 DEF formVars
  <2>2. LostOnlyByOverlap'
    BY <2>1 DEF PageInv, LostOnlyByOverlap, Stuck, PageClickable, Overlays, InFront
  <2>3. ASSUME NEW form \in off' PROVE Explained(form)'
    BY <2>1 DEF PageInv, Explained
  <2> QED
    BY <1>1, <2>1, <2>2, <2>3 DEF PageInv
<1>2. CASE /\ page' = page /\ ui' = PageLoaded(page)
           /\ timers' = <<>> /\ asks' = <<>>
           /\ id' = NoRows(FormsOf(page)) /\ shown' = NoRows(FormsOf(page))
           /\ file' = NoRows(FileForms(page))
           /\ val' = GoodValues(page)
           /\ off' = {}
  <2>1. page \in Pages
    BY DEF PageInv, PageTypes
  <2>2. UiInv(ui', WindowsOf(page))
    BY <1>2, LoadedCalm DEF PageLoaded, WindowsOf
  <2>3. PageTypes'
    BY <1>2, <2>1 DEF PageTypes, NoRows, GoodValues, Rows
  <2>4. SameRow' /\ FileValueGood'
    BY <1>2 DEF SameRow, FileValueGood, NoRows, GoodValues, Fields, SysConfigFields
  <2>5. \A a \in Range(asks') : SaveRight(a)
    BY <1>2 DEF Range
  <2> QED
    BY <1>2, <2>1, <2>2, <2>3, <2>4, <2>5, PageStays
<1> QED
  BY <1>1, <1>2 DEF Leave

LEMMA UserKeeps ==
  ASSUME PageInv,
         \/ \E w \in DOMAIN ui.place : Close(w)
         \/ TurnPage
         \/ YesLogout
  PROVE  PageInv'
<1>1. ASSUME NEW w \in DOMAIN ui.place, Close(w) PROVE PageInv'
  BY <1>1, CloseKeeps DEF Close, UserActs
<1>2. CASE TurnPage
  <2>1. page # Null /\ UiInv(ui, WindowsOf(page)) /\ FormSubmit(ui)
    BY <1>2 DEF TurnPage, UserActs, PageInv
  <2> QED
    BY <2>1, FormSubmitKeeps
<1>3. CASE YesLogout
  BY <1>3, LeaveKeeps DEF YesLogout
<1> QED
  BY <1>1, <1>2, <1>3

-----------------------------------------------------------------------------
(* What the answers do.                                                    *)
LEMMA AskAnswered ==
  ASSUME PageInv, NEW i \in DOMAIN asks, Answered(i)
  PROVE  /\ page # Null /\ page' = page
         /\ PageTypes /\ SameRow /\ FileValueGood /\ page \in Pages
         /\ UiInv(ui, WindowsOf(page)) /\ (\A g \in off : Explained(g))
         /\ asks' \in Seq(Asks(page)) /\ Range(asks') \subseteq Range(asks)
         /\ Len(asks') < Len(asks)
         /\ \A a \in Range(asks) : a # asks[i] => a \in Range(asks')
         /\ \A a \in Range(asks') : SaveRight(a)
<1>1. /\ page # Null /\ page' = page
      /\ PageTypes /\ SameRow /\ FileValueGood /\ page \in Pages
      /\ UiInv(ui, WindowsOf(page)) /\ \A g \in off : Explained(g)
      /\ \A a \in Range(asks) : SaveRight(a)
  BY DEF PageInv, Answered, PageTypes
<1>2. asks \in Seq(Asks(page)) /\ asks' = RemoveAt(asks, i)
  BY <1>1 DEF PageTypes, Answered
<1>3. /\ asks' \in Seq(Asks(page)) /\ Len(asks') = Len(asks) - 1
      /\ Range(asks') \subseteq Range(asks)
      /\ \A a \in Range(asks) : a # asks[i] => a \in Range(asks')
  BY <1>2, RemovedAt
<1>4. Len(asks) \in Nat
  BY <1>2
<1> QED
  BY <1>1, <1>3, <1>4

(* What is asked, and by which handler.                                    *)
LEMMA AskTypes ==
  ASSUME PageTypes, NEW i \in DOMAIN asks
  PROVE  /\ asks[i].row \in Rows
         /\ asks[i].kind = "show" => asks[i].h \in Askers(page)
         /\ asks[i].kind = "save" => asks[i].h \in Savers(page)
         /\ asks[i].kind = "upload" => asks[i].form \in FileForms(page)
         /\ asks[i] \in Range(asks)
<1>1. asks[i] \in Asks(page)
  BY DEF PageTypes
<1>2. CASE asks[i] \in ShowAsks(page)
  BY <1>2 DEF ShowAsks, Range
<1>3. CASE asks[i] \in SaveAsks(page)
  BY <1>3 DEF SaveAsks, Range
<1>4. CASE asks[i] \in UploadAsks(page)
  BY <1>4 DEF UploadAsks, Range
<1> QED
  BY <1>1, <1>2, <1>3, <1>4 DEF Asks

(* An answer, or one that comes to nothing, to something that is not the   *)
(* save of a form leaves the reasons for dead buttons.                     *)
LEMMA OthersExplained ==
  ASSUME PageInv, NEW i \in DOMAIN asks, Answered(i), NEW form \in off,
         asks[i].kind = "save" => asks[i].h.form # form,
         form \in failed => form \in failed', timers # <<>> => timers' # <<>>,
         ui'.fades = ui.fades, ui.overlap => ui'.overlap
  PROVE  Explained(form)'
<1>1. /\ Explained(form)
      /\ \A a \in Range(asks) : a # asks[i] => a \in Range(asks')
  BY AskAnswered
<1> QED
  BY <1>1, ReasonStays

(* A form whose button is dead has one save, and that one disables it.     *)
LEMMA SaverOfForm ==
  ASSUME PageTypes, NEW h \in Savers(page), h.form \in off
  PROVE  ~h.kept
<1>1. PICK g \in Savers(page) : g.form = h.form /\ ~g.kept
  BY DEF PageTypes
<1>2. g = h
  BY <1>1, AllHandlersRight DEF HandlersRight, SavesRight
<1> QED
  BY <1>1, <1>2

LEMMA ResultShown ==
  ASSUME page \in Pages, UiInv(ui, WindowsOf(page)), NEW w \in WindowsOf(page),
         ui' = Install(ui, w)
  PROVE  /\ UiInv(ui', WindowsOf(page)) /\ ui'.fades = ui.fades
         /\ ui.overlap => ui'.overlap
         /\ ui.overlap \/ CanInstall(ui, w)
BY WindowOpens


LEMMA FilledKeeps ==
  ASSUME PageInv, NEW i \in DOMAIN asks, NEW a, a = asks[i], a.kind = "show", Filled(i, a)
  PROVE  PageInv'
<1>1. Answered(i)
  BY DEF Filled
<1>2. /\ page # Null /\ page' = page
      /\ PageTypes /\ SameRow /\ FileValueGood /\ page \in Pages
      /\ asks' \in Seq(Asks(page))
      /\ \A b \in Range(asks) : b # a => b \in Range(asks')
      /\ \A b \in Range(asks') : SaveRight(b)
  BY <1>1, AskAnswered
<1>3. PICK h : h = a.h
  OBVIOUS
<1>4. h \in Askers(page) /\ a.row \in Rows
  BY <1>2, <1>3, AskTypes
<1>5. h.form \in FormsOf(page)
  BY <1>4 DEF FormsOf
<1>6. h.late => h.form = "changeUserRoleInfoWin" /\ h.at \in FormsOf(page)
  BY <1>4, AllHandlersRight DEF HandlersRight, AsksRight
<1>7. PICK v : v = [f \in DOMAIN val |-> IF f \in h.fills THEN "good" ELSE val[f]]
  OBVIOUS
<1>8. /\ id' = [id EXCEPT ![h.form] = IF h.late THEN id[h.at] ELSE a.row]
      /\ shown' = [shown EXCEPT ![h.form] = a.row]
      /\ file' = [f \in DOMAIN file |-> IF f = h.form THEN a.row ELSE file[f]]
      /\ val' = v /\ UNCHANGED timers
      /\ OpenForm(h, Blur(mark, h.blurs, v, a.row))
  BY <1>3, <1>7 DEF Filled
<1>9. /\ UiInv(ui', WindowsOf(page)) /\ off' \subseteq off
      /\ \A form \in off' : Explained(form)'
  <2>1. \A b \in Range(asks) : b.kind = "save" => b \in Range(asks')
    BY <1>2
  <2> QED
    BY <1>2, <1>5, <1>8, <2>1, FormOpens
<1>10. PageTypes'
  <2>1. id' \in [FormsOf(page) -> Rows]
    <3>1. (IF h.late THEN id[h.at] ELSE a.row) \in Rows
      BY <1>2, <1>4, <1>6 DEF PageTypes
    <3> QED
      BY <1>2, <1>8, <3>1 DEF PageTypes
  <2>2. shown' \in [FormsOf(page) -> Rows] /\ file' \in [FileForms(page) -> Rows]
    BY <1>2, <1>4, <1>8 DEF PageTypes
  <2>3. val' \in [Fields(page) -> {"good", "bad", "empty"}]
    BY <1>2, <1>7, <1>8 DEF PageTypes
  <2> QED
    BY <1>2, <1>8, <1>9, <2>1, <2>2, <2>3 DEF PageTypes
<1>11. SameRow'
  BY <1>2, <1>5, <1>6, <1>8 DEF SameRow, PageTypes
<1>12. FileValueGood'
  <2> SUFFICES ASSUME page = "sysConfig", shown'["changeConfigValueWin"] \in FileRecs
               PROVE  val'["change_config_value"] # "bad"
    BY <1>2 DEF FileValueGood
  <2>1. "change_config_value" \in DOMAIN val
    BY <1>2 DEF PageTypes, Fields, SysConfigFields
  <2>2. h.form = "changeConfigValueWin" => "change_config_value" \in h.fills
    BY <1>4, AllHandlersRight DEF HandlersRight, AsksRight
  <2>3. CASE h.form = "changeConfigValueWin"
    BY <1>7, <1>8, <2>1, <2>2, <2>3
  <2>4. CASE h.form # "changeConfigValueWin"
    <3>1. shown["changeConfigValueWin"] \in FileRecs
      BY <1>2, <1>8, <2>4 DEF PageTypes
    <3>2. val["change_config_value"] # "bad"
      BY <1>2, <3>1 DEF FileValueGood
    <3> QED
      BY <1>7, <1>8, <2>1, <3>2
  <2> QED
    BY <2>3, <2>4
<1> QED
  BY <1>2, <1>9, <1>10, <1>11, <1>12, PageStays

LEMMA NotThereKeeps ==
  ASSUME PageInv, NEW i \in DOMAIN asks, asks[i].kind # "save", NotThere(i)
  PROVE  PageInv'
<1>1. Answered(i) /\ ui' = Install(ui, "operResultWin")
  BY DEF NotThere, ShowResult
<1>2. UNCHANGED <<timers, id, shown, file, val, off, failed>>
  BY DEF NotThere, formVars
<1>3. /\ page' = page /\ PageTypes /\ SameRow /\ FileValueGood /\ page \in Pages
      /\ UiInv(ui, WindowsOf(page)) /\ asks' \in Seq(Asks(page))
      /\ \A b \in Range(asks') : SaveRight(b)
  BY <1>1, AskAnswered
<1>4. /\ UiInv(ui', WindowsOf(page)) /\ ui'.fades = ui.fades
      /\ ui.overlap => ui'.overlap
  BY <1>1, <1>3, ResultShown, CommonOnPage
<1>5. ASSUME NEW form \in off' PROVE Explained(form)'
  BY <1>1, <1>2, <1>4, OthersExplained
<1>6. PageTypes' /\ SameRow' /\ FileValueGood'
  BY <1>2, <1>3, FormsStay DEF PageTypes
<1> QED
  BY <1>3, <1>4, <1>5, <1>6, PageStays

LEMMA DoneKeeps ==
  ASSUME PageInv, NEW i \in DOMAIN asks, asks[i].kind = "save", Done(i, asks[i].h)
  PROVE  PageInv'
<1>1. Answered(i) /\ ui' = Install(ui, "operResultWin")
  BY DEF Done, ShowResult
<1>2. UNCHANGED <<id, shown, file, val, off, failed>>
  BY DEF Done, formVars
<1>3. /\ page' = page /\ PageTypes /\ SameRow /\ FileValueGood /\ page \in Pages
      /\ UiInv(ui, WindowsOf(page)) /\ asks' \in Seq(Asks(page))
      /\ \A b \in Range(asks') : SaveRight(b)
  BY <1>1, AskAnswered
<1>4. /\ UiInv(ui', WindowsOf(page)) /\ ui'.fades = ui.fades
      /\ ui.overlap => ui'.overlap
      /\ ui.overlap \/ CanInstall(ui, "operResultWin")
  BY <1>1, <1>3, ResultShown, CommonOnPage
<1>5. PICK h : h = asks[i].h
  OBVIOUS
<1>6. h \in Savers(page) /\ h.reload \in Reloads \cup {"none"} /\ (~h.kept => h.reload # "none")
  <2>1. h \in Savers(page)
    BY <1>3, <1>5, AskTypes
  <2> QED
    BY <2>1, AllHandlersRight DEF HandlersRight, SavesRight
<1>7. /\ timers' \in Seq(Reloads) /\ (timers # <<>> => timers' # <<>>)
      /\ h.reload # "none" /\ CanInstall(ui, "operResultWin") => timers' # <<>>
  <2>1. timers' = IF h.reload # "none" /\ CanInstall(ui, "operResultWin")
                    THEN Append(timers, h.reload) ELSE timers
    BY <1>5 DEF Done
  <2>2. timers \in Seq(Reloads)
    BY <1>3 DEF PageTypes
  <2>3. h.reload # "none" => /\ Append(timers, h.reload) \in Seq(Reloads)
                             /\ Append(timers, h.reload) # <<>>
    BY <1>6, <2>2, Appended
  <2> QED
    BY <2>1, <2>2, <2>3
<1>8. ASSUME NEW form \in off' PROVE Explained(form)'
  <2>1. CASE form = h.form
    <3>1. ~h.kept
      BY <1>2, <1>3, <1>6, <1>8, <2>1, SaverOfForm
    <3>2. ui'.overlap \/ timers' # <<>>
      BY <1>4, <1>6, <1>7, <3>1
    <3> QED
      BY <3>2 DEF Explained
  <2>2. CASE form # h.form
    BY <1>1, <1>2, <1>4, <1>5, <1>7, <2>2, OthersExplained
  <2> QED
    BY <2>1, <2>2
<1>9. PageTypes' /\ SameRow' /\ FileValueGood'
  BY <1>2, <1>3, <1>7, FormsStay DEF PageTypes
<1> QED
  BY <1>3, <1>4, <1>8, <1>9, PageStays

LEMMA FailureKeeps ==
  ASSUME PageInv, NEW i \in DOMAIN asks, asks[i].kind = "save", Failure(i, asks[i].h)
  PROVE  PageInv'
<1>1. Answered(i) /\ ui' = Install(ui, "operResultWin")
  BY DEF Failure, ShowResult
<1>2. UNCHANGED <<timers, id, shown, file, val, off>> /\ failed' = failed \cup {asks[i].h.form}
  BY DEF Failure
<1>3. /\ page' = page /\ PageTypes /\ SameRow /\ FileValueGood /\ page \in Pages
      /\ UiInv(ui, WindowsOf(page)) /\ asks' \in Seq(Asks(page))
      /\ \A b \in Range(asks') : SaveRight(b)
  BY <1>1, AskAnswered
<1>4. /\ UiInv(ui', WindowsOf(page)) /\ ui'.fades = ui.fades
      /\ ui.overlap => ui'.overlap
  BY <1>1, <1>3, ResultShown, CommonOnPage
<1>5. ASSUME NEW form \in off' PROVE Explained(form)'
  <2>1. CASE form = asks[i].h.form
    BY <1>2, <2>1 DEF Explained
  <2>2. CASE form # asks[i].h.form
    BY <1>1, <1>2, <1>4, <2>2, OthersExplained
  <2> QED
    BY <2>1, <2>2
<1>6. PageTypes' /\ SameRow' /\ FileValueGood'
  BY <1>2, <1>3, FormsStay DEF PageTypes
<1> QED
  BY <1>3, <1>4, <1>5, <1>6, PageStays

LEMMA RejectedKeeps ==
  ASSUME PageInv, NEW i \in DOMAIN asks, asks[i].kind = "save",
         "error" \in asks[i].h.answers, Rejected(i, asks[i].h)
  PROVE  PageInv'
<1>1. PICK h : h = asks[i].h
  OBVIOUS
<1>2. /\ Answered(i) /\ UNCHANGED <<ui, timers, id, shown, file, val, failed>>
      /\ off' = IF h.enables THEN off \ {h.form} ELSE off
  BY <1>1 DEF Rejected
<1>3. /\ page' = page /\ PageTypes /\ SameRow /\ FileValueGood /\ page \in Pages
      /\ UiInv(ui, WindowsOf(page)) /\ asks' \in Seq(Asks(page))
      /\ \A b \in Range(asks') : SaveRight(b)
  BY <1>2, AskAnswered
<1>4. h \in Savers(page)
  BY <1>1, <1>3, AskTypes
<1>5. ~h.enables /\ ~h.kept => h.form = "changeUserPassInfoWin"
  BY <1>1, <1>4, AllHandlersRight DEF HandlersRight, SavesRight
<1>6. ASSUME NEW form \in off' PROVE Explained(form)'
  <2>1. CASE form = h.form
    <3>1. ~h.enables /\ form \in off
      BY <1>2, <1>6, <2>1
    <3>2. ~h.kept
      BY <1>3, <1>4, <2>1, <3>1, SaverOfForm
    <3> QED
      BY <1>5, <2>1, <3>1, <3>2 DEF Explained
  <2>2. CASE form # h.form
    BY <1>1, <1>2, <2>2, OthersExplained
  <2> QED
    BY <2>1, <2>2
<1>7. PageTypes' /\ SameRow' /\ FileValueGood'
  BY <1>2, <1>3, FormsStay DEF PageTypes
<1> QED
  BY <1>2, <1>3, <1>6, <1>7, PageStays

LEMMA UploadedKeeps ==
  ASSUME PageInv, NEW i \in DOMAIN asks, asks[i].kind = "upload", Uploaded(i, asks[i])
  PROVE  PageInv'
<1>1. /\ Answered(i) /\ UNCHANGED <<ui, timers, id, shown, val, off, failed>>
      /\ file' = [file EXCEPT ![asks[i].form] = asks[i].row]
  BY DEF Uploaded
<1>2. /\ page' = page /\ PageTypes /\ SameRow /\ FileValueGood /\ page \in Pages
      /\ UiInv(ui, WindowsOf(page)) /\ asks' \in Seq(Asks(page))
      /\ \A b \in Range(asks') : SaveRight(b)
  BY <1>1, AskAnswered
<1>3. asks[i].row \in Rows
  BY <1>2, AskTypes
<1>4. PageTypes' /\ SameRow' /\ FileValueGood'
  BY <1>1, <1>2, <1>3 DEF PageTypes, SameRow, FileValueGood
<1>5. ASSUME NEW form \in off' PROVE Explained(form)'
  BY <1>1, OthersExplained
<1> QED
  BY <1>1, <1>2, <1>4, <1>5, PageStays

LEMMA NoAnswerKeeps ==
  ASSUME PageInv, NEW i \in DOMAIN asks, NEW expired \in BOOLEAN,
         NoAnswer(i, asks[i], expired)
  PROVE  PageInv'
<1>1. /\ Answered(i) /\ UNCHANGED <<timers, id, shown, file, val, off>>
      /\ ui' = IF expired THEN Install(ui, "sessionTimeoutConfirm") ELSE ui
      /\ failed' = IF asks[i].kind = "save" THEN failed \cup {asks[i].h.form} ELSE failed
  BY DEF NoAnswer
<1>2. /\ page' = page /\ PageTypes /\ SameRow /\ FileValueGood /\ page \in Pages
      /\ UiInv(ui, WindowsOf(page)) /\ asks' \in Seq(Asks(page))
      /\ \A b \in Range(asks') : SaveRight(b)
  BY <1>1, AskAnswered
<1>3. /\ UiInv(ui', WindowsOf(page)) /\ ui'.fades = ui.fades
      /\ ui.overlap => ui'.overlap
  BY <1>1, <1>2, ResultShown, CommonOnPage
<1>4. ASSUME NEW form \in off' PROVE Explained(form)'
  <2>1. CASE asks[i].kind = "save" /\ form = asks[i].h.form
    BY <1>1, <2>1 DEF Explained
  <2>2. CASE ~(asks[i].kind = "save" /\ form = asks[i].h.form)
    BY <1>1, <1>3, <2>2, OthersExplained
  <2> QED
    BY <2>1, <2>2
<1>5. PageTypes' /\ SameRow' /\ FileValueGood'
  BY <1>1, <1>2, FormsStay DEF PageTypes
<1> QED
  BY <1>2, <1>3, <1>4, <1>5, PageStays

LEMMA AnswerKeeps ==
  ASSUME PageInv, NEW i \in DOMAIN asks, Answer(i)
  PROVE  PageInv'
<1>1. CASE asks[i].kind = "show" /\ (Filled(i, asks[i]) \/ NotThere(i))
  BY <1>1, FilledKeeps, NotThereKeeps
<1>2. CASE asks[i].kind = "save" /\ Done(i, asks[i].h)
  BY <1>2, DoneKeeps
<1>3. CASE asks[i].kind = "save" /\ Failure(i, asks[i].h)
  BY <1>3, FailureKeeps
<1>4. CASE asks[i].kind = "save" /\ "error" \in asks[i].h.answers /\ Rejected(i, asks[i].h)
  BY <1>4, RejectedKeeps
<1>5. CASE asks[i].kind = "upload" /\ (Uploaded(i, asks[i]) \/ NotThere(i))
  BY <1>5, UploadedKeeps, NotThereKeeps
<1>6. CASE NoAnswer(i, asks[i], FALSE) \/ NoAnswer(i, asks[i], TRUE)
  BY <1>6, NoAnswerKeeps
<1> QED
  BY <1>1, <1>2, <1>3, <1>4, <1>5, <1>6 DEF Answer


-----------------------------------------------------------------------------
(* What the timers do.                                                     *)
LEMMA ExpireKeeps ==
  ASSUME PageInv, NEW i \in DOMAIN timers, Expire(i)
  PROVE  PageInv'
<1>1. /\ page # Null /\ page' = page /\ PageTypes /\ SameRow /\ FileValueGood
      /\ page \in Pages /\ UiInv(ui, WindowsOf(page))
      /\ \A a \in Range(asks) : SaveRight(a)
  BY DEF PageInv, PageTypes, Expire
<1>2. /\ timers' = RemoveAt(timers, i) /\ ui' = RemoveFading(ui, timers[i])
      /\ UNCHANGED <<asks, id, shown, file, val, off, failed>>
  BY DEF Expire, formVars
<1>3. timers \in Seq(Reloads)
  BY <1>1 DEF PageTypes
<1>4. timers' \in Seq(Reloads) /\ timers[i] \in Reloads
  BY <1>2, <1>3, RemovedAt
<1>5. WindowsOf(page) \subseteq Windows
  BY <1>1, PageWindowsRight
<1>6. UiInv(ui', WindowsOf(page)) /\ ui'.overlap = ui.overlap
  BY <1>1, <1>2, <1>4, <1>5, RemoveFadingCalm, ZenonT(60)
<1>7. ui.overlap \/ \E f \in Range(ui'.fades) : f.then # Null
  <2>1. timers[i] # Null
    BY <1>4, FormsAssumption
  <2> QED
    BY <1>1, <1>2, <1>4, <1>5, <2>1, FadeAdded
<1>8. ASSUME NEW form \in off' PROVE Explained(form)'
  BY <1>6, <1>7 DEF Explained
<1>9. PageTypes' /\ SameRow' /\ FileValueGood'
  BY <1>1, <1>2, <1>4, FormsStay DEF PageTypes
<1> QED
  BY <1>1, <1>2, <1>6, <1>8, <1>9, PageStays

LEMMA FadeEndsKeeps ==
  ASSUME PageInv, NEW i \in DOMAIN ui.fades, FadeEnds(i)
  PROVE  PageInv'
<1>1. /\ page # Null /\ PageTypes /\ SameRow /\ FileValueGood
      /\ page \in Pages /\ UiInv(ui, WindowsOf(page))
      /\ \A a \in Range(asks) : SaveRight(a)
      /\ \A form \in off : Explained(form)
  BY DEF PageInv, PageTypes, FadeEnds
<1>2. PICK u : u = EndFade(ui, i)
  OBVIOUS
<1>3. WindowsOf(page) \subseteq Windows /\ Growl \notin WindowsOf(page)
  BY <1>1, PageWindowsRight
<1>4. UiInv(u, WindowsOf(page)) /\ u.overlap = ui.overlap /\ u.fades = RemoveAt(ui.fades, i)
  BY <1>1, <1>2, <1>3, EndFadeCalm
<1>5. CASE FormSubmit(u)
  BY <1>1, <1>4, <1>5, FormSubmitKeeps
<1>6. CASE Leave
  BY <1>1, <1>6, LeaveKeeps
<1>7. CASE /\ ui.fades[i].then = Null /\ ui' = u
           /\ UNCHANGED <<page, visit, timers, asks, formVars>>
  <2>1. UNCHANGED <<page, timers, asks, id, shown, file, val, off, failed>>
    BY <1>7 DEF formVars
  <2>2. ui.overlap \/ \A f \in Range(ui.fades) : f.then # Null => f \in Range(ui'.fades)
    <3>1. CASE ui.fades \in Seq(Fades)
      BY <1>4, <1>7, <3>1, RemovedAt
    <3> QED
      BY <1>1, <3>1 DEF UiInv
  <2>3. ASSUME NEW form \in off' PROVE Explained(form)'
    BY <1>1, <1>4, <1>7, <2>1, <2>2, ReasonStays
  <2>4. PageTypes' /\ SameRow' /\ FileValueGood'
    BY <1>1, <2>1, FormsStay DEF PageTypes
  <2> QED
    BY <1>1, <1>4, <1>7, <2>1, <2>3, <2>4, PageStays
<1> QED
  BY <1>2, <1>5, <1>6, <1>7 DEF FadeEnds

-----------------------------------------------------------------------------
(* The invariant.                                                          *)
LEMMA PagesStep == PageInv /\ [Next]_vars => PageInv'
<1> SUFFICES ASSUME PageInv, [Next]_vars PROVE PageInv'
  OBVIOUS
<1>1. CASE UNCHANGED vars
  BY <1>1 DEF vars, PageInv, PageTypes, SameRow, FileValueGood, Explained,
              LostOnlyByOverlap, Stuck, PageClickable, Overlays, InFront,
              WindowsOf, FormsOf
<1>2. ASSUME NEW h \in Openers(page), NEW row \in Recs \cup {New}, ClickOpener(h, row)
      PROVE  PageInv'
  BY <1>2, ClickOpenerKeeps DEF ClickOpener, UserActs
<1>3. ASSUME NEW h \in Askers(page), NEW row \in Recs \cup {New}, ClickAsker(h, row)
      PROVE  PageInv'
  BY <1>3, ClickAskerKeeps DEF ClickAsker, UserActs
<1>4. ASSUME NEW h \in Savers(page), NEW f \in FieldsOf(h),
             NEW v \in {"good", "bad", "empty"}, Type(h, f, v)
      PROVE  PageInv'
  BY <1>4, TypeKeeps DEF Type, UserActs
<1>5. ASSUME NEW h \in Savers(page), ClickSave(h)
      PROVE  PageInv'
  BY <1>5, ClickSaveKeeps DEF ClickSave, UserActs
<1>6. ASSUME NEW form \in FileForms(page), ClickUpload(form)
      PROVE  PageInv'
  BY <1>6, ClickUploadKeeps DEF ClickUpload, UserActs
<1>7. CASE (\E w \in DOMAIN ui.place : Close(w)) \/ TurnPage \/ YesLogout
  BY <1>7, UserKeeps
<1>8. ASSUME NEW i \in DOMAIN asks, Answer(i)
      PROVE  PageInv'
  BY <1>8, AnswerKeeps
<1>9. CASE GrowlEnds
  BY <1>9, CloseKeeps DEF GrowlEnds
<1>10. ASSUME NEW i \in DOMAIN timers, Expire(i)
       PROVE  PageInv'
  BY <1>10, ExpireKeeps
<1>11. ASSUME NEW i \in DOMAIN ui.fades, FadeEnds(i)
       PROVE  PageInv'
  BY <1>11, FadeEndsKeeps
<1> QED
  BY <1>1, <1>2, <1>3, <1>4, <1>5, <1>6, <1>7, <1>8, <1>9, <1>10, <1>11 DEF Next

(* Whatever the user clicks, whichever answers come and in whatever order  *)
(* timers and fades end, the windows, the forms and the requests under way *)
(* stay related as PageInv says.                                           *)
THEOREM PagesStayRight == Spec => []PageInv
<1> QED
  BY PagesStart, PagesStep, PTL DEF Spec


(* A save names the row the user sees in the form, whatever answers came   *)
(* in the meantime; the form of a user's role is the exception.            *)
THEOREM SavesNameShownRow == Spec => []SavesShownRow
<1>1. PageInv => SavesShownRow
  BY DEF PageInv, SaveRight, SavesShownRow, Range
<1> QED
  BY <1>1, PagesStayRight, PTL

(* A form in front whose button is dead waits for its answer or for the    *)
(* reload, or got no usable answer; the password of a user and pages with  *)
(* overlapped windows are the exceptions.                                  *)
THEOREM DeadButtonsAreExplained == Spec => []DeadButtonExplained
<1>1. PageInv => DeadButtonExplained
  <2> SUFFICES ASSUME PageInv, NEW form \in off
               PROVE  \/ form \in failed \/ timers # <<>>
                      \/ \E i \in DOMAIN asks : asks[i].kind = "save" /\ asks[i].h.form = form
                      \/ \E f \in Range(ui.fades) : f.then # Null
                      \/ form = "changeUserPassInfoWin"
                      \/ ui.overlap
    BY DEF DeadButtonExplained
  <2>1. Explained(form)
    BY DEF PageInv
  <2>2. ASSUME NEW a \in Range(asks), a.kind = "save", a.h.form = form
        PROVE  \E i \in DOMAIN asks : asks[i].kind = "save" /\ asks[i].h.form = form
    BY <2>2 DEF Range
  <2> QED
    BY <2>1, <2>2 DEF Explained
<1> QED
  BY <1>1, PagesStayRight, PTL

-----------------------------------------------------------------------------
(* Why a window opens over a fading one.                                   *)
CauseOfOverlap ==
  \/ Len(asks') < Len(asks)
  \/ Len(ui'.fades) < Len(ui.fades)
  \/ ui.growl # Null
  \/ \E f \in Range(ui.fades) :
       \/ Overlays(ui) # <<>> /\ Last(Overlays(ui)) \in f.els
       \/ f.els \cap LayersOf(ui) = {}

(* What a fade covers, and what it can no longer cover.                    *)
LEMMA FadesCoverOrHaveGone ==
  ASSUME NEW ws, UiInv(ui, ws), ~ui.overlap, ui.fades # <<>>
  PROVE  \/ ui.growl # Null
         \/ \E f \in Range(ui.fades) :
              \/ Overlays(ui) # <<>> /\ Last(Overlays(ui)) \in f.els
              \/ f.els \cap LayersOf(ui) = {}
<1>1. ui.fades \in Seq(Fades) /\ Calm(ui)
  BY DEF UiInv
<1>2. PICK f : f \in Range(ui.fades)
  <2>1. 1 \in DOMAIN ui.fades
    BY <1>1
  <2> QED
    BY <2>1 DEF Range
<1>3. CASE Hidden(ui)
  <2>1. LayersOf(ui) = {}
    BY <1>3 DEF Hidden, LayersOf, Range
  <2> QED
    BY <1>2, <2>1
<1>4. ASSUME NEW l \in Layers, ui.stack = <<l>>, Carries(ui, l), GoesWithFades(ui, l),
             ui.growl = Null
      PROVE  Overlays(ui) # <<>> /\ Last(Overlays(ui)) \in f.els
  <2>1. Overlays(ui) = <<l>> /\ Last(<<l>>) = l /\ <<l>> # <<>>
    BY <1>4, OneLeft, LayersAreNumbers DEF Overlays, Last
  <2>2. f.els = {l}
    BY <1>2, <1>4 DEF GoesWithFades
  <2> QED
    BY <2>1, <2>2
<1> QED
  BY <1>1, <1>2, <1>3, <1>4 DEF Calm, Stands

(* A click or an answer that opens a window over another one opens it over *)
(* one that fades.                                                         *)
LEMMA OpensOverFade ==
  ASSUME page \in Pages, UiInv(ui, WindowsOf(page)), ~ui.overlap,
         NEW w \in WindowsOf(page), ui' = Install(ui, w), ui'.overlap
  PROVE  CauseOfOverlap
<1>1. ui.fades # <<>>
  BY WindowOpens
<1> QED
  BY <1>1, FadesCoverOrHaveGone DEF CauseOfOverlap

LEMMA OverlapsHaveCauses ==
  PageInv /\ [Next]_vars => (~ui.overlap /\ ui'.overlap => CauseOfOverlap)
<1> SUFFICES ASSUME PageInv, Next, ~ui.overlap, ui'.overlap
             PROVE  CauseOfOverlap
  BY DEF vars
<1>1. page # Null => page \in Pages /\ UiInv(ui, WindowsOf(page))
  BY DEF PageInv, PageTypes
<1>2. ASSUME NEW h \in Openers(page), NEW row, ClickOpener(h, row)
      PROVE  CauseOfOverlap
  <2>1. page # Null /\ h.form \in WindowsOf(page)
    BY <1>2 DEF ClickOpener, UserActs, WindowsOf, FormsOf
  <2>2. ui' = Install(ui, h.form)
    BY <1>2 DEF ClickOpener, OpenForm
  <2> QED
    BY <1>1, <2>1, <2>2, OpensOverFade
<1>3. ASSUME NEW form, ClickUpload(form)
      PROVE  CauseOfOverlap
  <2>1. page # Null /\ ui' = Install(ui, "operResultWin")
    BY <1>3 DEF ClickUpload, UserActs
  <2> QED
    BY <1>1, <2>1, CommonOnPage, OpensOverFade
<1>4. CASE TurnPage
  <2>1. page # Null /\ ui' = Install(ui, "handleWating")
    BY <1>4 DEF TurnPage, FormSubmit, UserActs
  <2> QED
    BY <1>1, <2>1, CommonOnPage, OpensOverFade
<1>5. ASSUME Leave PROVE FALSE
  BY <1>5 DEF Leave, PageLoaded, Loaded
<1>6. ASSUME NEW i \in DOMAIN asks, Answer(i)
      PROVE  CauseOfOverlap
  <2>1. Answered(i)
    BY <1>6 DEF Answer, Filled, NotThere, Done, Failure, Rejected, Uploaded, NoAnswer
  <2> QED
    BY <2>1, AskAnswered DEF CauseOfOverlap
<1>7. ASSUME page # Null, NEW then, ui' = RemoveFading(ui, then) PROVE FALSE
  <2>1. DOMAIN ui = UiFields
    BY <1>1, <1>7 DEF UiInv
  <2>2. RemoveFading(ui, then).overlap = ui.overlap
    BY <2>1, RemoveFadingFields
  <2> QED
    BY <1>7, <2>2
<1>8. ASSUME NEW i \in DOMAIN ui.fades, FadeEnds(i)
      PROVE  CauseOfOverlap
  <2>1. page # Null /\ page \in Pages /\ UiInv(ui, WindowsOf(page))
    BY <1>1, <1>8 DEF FadeEnds
  <2>2. PICK u : u = EndFade(ui, i)
    OBVIOUS
  <2>3. WindowsOf(page) \subseteq Windows /\ Growl \notin WindowsOf(page)
    BY <2>1, PageWindowsRight
  <2>4. UiInv(u, WindowsOf(page)) /\ u.overlap = ui.overlap /\ u.fades = RemoveAt(ui.fades, i)
    BY <2>1, <2>2, <2>3, EndFadeCalm
  <2>5. ui' = u \/ ui' = Install(u, "handleWating") \/ Leave
    BY <1>8, <2>2 DEF FadeEnds, FormSubmit
  <2>6. ui'.fades = u.fades
    BY <1>5, <2>1, <2>4, <2>5, WindowOpens, CommonOnPage
  <2>7. ui.fades \in Seq(Fades)
    BY <2>1 DEF UiInv
  <2>8. Len(RemoveAt(ui.fades, i)) = Len(ui.fades) - 1 /\ Len(ui.fades) \in Nat
    BY <2>7, RemovedAt
  <2> QED
    BY <2>4, <2>6, <2>8 DEF CauseOfOverlap
<1>9. CASE ui' = ui
  BY <1>9
<1> QED
  BY <1>2, <1>3, <1>4, <1>5, <1>6, <1>7, <1>8, <1>9
  DEF Next, UserActs, ClickAsker, Type, ClickSave, Close, YesLogout, GrowlEnds, Expire

(* As long as no window has opened over a fading one every window is at    *)
(* home, in front, or fading with the note that brings it back, and the    *)
(* page is never covered by nothing; and a window opens over a fading one  *)
(* only from an answer, a timer, or one of three clicks.                   *)
THEOREM WindowsAreLostOnlyByOverlap == Spec => WindowsLostOnlyByOverlap
<1>1. PageInv => LostOnlyByOverlap
  BY DEF PageInv
<1>2. PageInv /\ [Next]_vars =>
        [~ui.overlap /\ ui'.overlap =>
           \/ Len(asks') < Len(asks)
           \/ Len(ui'.fades) < Len(ui.fades)
           \/ ui.growl # Null
           \/ \E f \in Range(ui.fades) :
                \/ Overlays(ui) # <<>> /\ Last(Overlays(ui)) \in f.els
                \/ f.els \cap LayersOf(ui) = {}]_vars
  BY OverlapsHaveCauses DEF CauseOfOverlap
<1> QED
  BY <1>1, <1>2, PagesStayRight, PTL DEF Spec, WindowsLostOnlyByOverlap, OverlapHasCause

-----------------------------------------------------------------------------
(* The checks of a form.                                                   *)
LEMMA RefusalsHaveReasons ==
  ASSUME PageInv PROVE RefusedForReason
<1> SUFFICES ASSUME NEW h \in Savers(page), ClickSave(h), Len(asks') = Len(asks),
                    ~MissesFile(h)
             PROVE  \/ \E f \in h.tests : val[f] = "bad"
                    \/ mark' \cap (Unchecked(h) \cup StaleConfig(h)) # {}
  BY DEF RefusedForReason
<1>1. asks \in Seq(Asks(page))
  BY DEF PageInv, PageTypes, ClickSave, UserActs
<1>2. asks' = asks
  <2>1. ASSUME NEW a PROVE Len(Append(asks, a)) # Len(asks)
    <3>1. asks \in Seq(Asks(page) \cup {a})
      BY <1>1
    <3>2. Len(asks) \in Nat /\ Len(Append(asks, a)) = Len(asks) + 1
      BY <1>1, <3>1, Appended
    <3> QED
      BY <3>2
  <2> QED
    BY <2>1 DEF ClickSave
<1>3. Refused(h)
  BY <1>2 DEF ClickSave
<1>4. PICK f \in h.tests : f \in MarksAtSave(h)
  BY <1>3 DEF Refused
<1>5. mark' = MarksAtSave(h)
  BY DEF ClickSave
<1>6. CASE f \in Unchecked(h) \cup StaleConfig(h)
  BY <1>4, <1>5, <1>6
<1>7. CASE f \in h.blurs /\ f \notin Emails /\ Checked(f, shown[h.form])
  BY <1>4, <1>7 DEF MarksAtSave, Blur
<1> QED
  BY <1>4, <1>6, <1>7 DEF Unchecked, StaleConfig

(* Nothing the checks of a form refuse is sent and nothing they accept is  *)
(* refused, but for the fields the save does not check again, e-mail       *)
(* addresses and configuration values that were integers before.           *)
THEOREM ChecksDecideAboutSaves == Spec => ChecksDecide
<1>1. PageInv => SentIsChecked
  BY DEF PageInv, SaveRight, SentIsChecked, Range
<1>2. PageInv /\ PageInv' => SentIsChecked' /\ RefusedForReason
  <2>1. ASSUME PageInv' PROVE SentIsChecked'
    BY <2>1 DEF PageInv, SaveRight, SentIsChecked, Range
  <2> QED
    BY <2>1, RefusalsHaveReasons
<1>3. PageInv /\ [Next]_vars => [SentIsChecked' /\ RefusedForReason]_vars
  BY <1>2, PagesStep
<1> QED
  BY <1>3, PagesStayRight, PTL DEF Spec, ChecksDecide

=============================================================================

--------------------------- MODULE DualDataProofs ---------------------------
(***************************************************************************)
(* Proofs about DualData and LayoutUpgrade, for any set of directories,    *)
(* any number of times Android creates them, any files, and every subset   *)
(* of the commands.  Two inductive invariants: IInv says that no data is   *)
(* lost whatever happens, JInv where it is as long as the user is careful. *)
(***************************************************************************)
EXTENDS LayoutUpgrade, FiniteSetTheorems, SequenceTheorems, TLAPS

(***************************************************************************)
(* What the properties need besides themselves: first, what the running    *)
(* command still has to do.                                                *)
(***************************************************************************)

\* The steps of the programs.
Steps ==
    ({"mark", "finish", "migrate", "switch", "pack", "unpack", "drain",
      "undisable", "disable", "create"} \X Systems)
    \cup ({"mount", "clean", "flag", "setprop", "done"} \X {0})
    \cup ({"lv"} \X {Live, Sealed(1), Sealed(2)})

\* Before program s packs or unpacks, it migrates what older versions sealed
\* (for the systems in legacy); before it renames a .disabled directory or
\* makes a sealed one, it finishes the moves that are under way (of the systems
\* in moving), and it has not begun another by then.  The layout version goes to
\* /data, or at once to the directory that was just made.
InOrder(s, legacy, moving) ==
    \A k \in 1 .. Len(s) :
        /\ s[k][1] \in {"pack", "unpack", "switch"} =>
               \A i \in legacy : \E j \in 1 .. (k - 1) : s[j] = <<"migrate", i>>
        /\ s[k][1] \in {"undisable", "create"} =>
               /\ \A i \in moving : \E j \in 1 .. (k - 1) : s[j] = <<"finish", i>>
               /\ \A j \in 1 .. (k - 1) : s[j][1] \notin {"pack", "unpack", "switch"}
        /\ s[k][1] = "lv" => s[k][2] = Live \/ k = 1

LegacyOf == {i \in Systems : Exists(Legacy(i))}
MovingOf == {i \in Systems : Exists(Tmp(i))}

ProgramFits ==
    /\ todo \in Seq(Steps)
    /\ InOrder(todo, LegacyOf, MovingOf)
    /\ At("lv") => Exists(Arg)

\* Nothing runs before a system has booted, nor beside upgrade_layout.sh.
NothingRunsBeside ==
    /\ power = "off" => todo = <<>>
    /\ upg # "idle" => power = "android" /\ todo = <<>>

\* A directory holds what was created and perhaps a layout version; the
\* directories of older versions hold what those sealed.
EntriesAreKnown ==
    /\ \A p \in Dirs : Exists(p) => fs[p] \subseteq created \cup {LayoutVersion}
    /\ \A i \in Systems : Exists(Legacy(i)) => \A e \in fs[Legacy(i)] : e.batch = 0

\* NoUserDataLost without its count.
OnePlace ==
    \A e \in created : \A p, q \in Dirs : e \in fs[p] /\ e \in fs[q] => p = q

SomePlace ==
    \A e \in created : (\E p \in Dirs : e \in fs[p]) \/ e.batch = 0 \/ e \in swept

\* All files are in media/0 once that is there, unless the mv is under way or
\* was cut short.
FilesMoved == media0 # NoDir /\ ~cut /\ upg # "move" => media = {}

DataOK == EntriesAreKnown /\ OnePlace /\ SomePlace

\* The inductive invariant.
IInv ==
    /\ TypeOK
    /\ ProgramFits
    /\ NothingRunsBeside
    /\ NothingIsBuried
    /\ DataOK
    /\ FilesMoved

(***************************************************************************)
(* Programs.                                                               *)
(***************************************************************************)

\* One program after another.
LEMMA Chain ==
    ASSUME NEW p \in Seq(Steps), NEW t \in Seq(Steps)
    PROVE  /\ p \o t \in Seq(Steps)
           /\ Len(p \o t) = Len(p) + Len(t)
           /\ \A k \in 1 .. Len(p) : (p \o t)[k] = p[k]
           /\ \A k \in 1 .. Len(t) : (p \o t)[Len(p) + k] = t[k]
BY ConcatProperties

\* The first step of a program is done: what it migrates or finishes is gone,
\* and only packing and unpacking begin a move.
Popped(s, legacy, moving, legacy2, moving2) ==
    /\ s \in Seq(Steps) /\ s # <<>> /\ InOrder(s, legacy, moving)
    /\ legacy2 \subseteq legacy
    /\ \A i \in legacy2 : Head(s) # <<"migrate", i>>
    /\ \A i \in moving2 : /\ Head(s) # <<"finish", i>>
                          /\ i \in moving \/ Head(s)[1] \in {"pack", "unpack"}

LEMMA PopInOrder ==
    ASSUME NEW s, NEW legacy, NEW moving, NEW legacy2, NEW moving2,
           Popped(s, legacy, moving, legacy2, moving2)
    PROVE  /\ Tail(s) \in Seq(Steps)
           /\ InOrder(Tail(s), legacy2, moving2)
           /\ \A k \in 1 .. Len(Tail(s)) : Tail(s)[k][1] = "lv" => Tail(s)[k][2] = Live
<1> USE DEF Popped
<1> DEFINE t == Tail(s)
<1>1. /\ t \in Seq(Steps) /\ Len(s) \in Nat \ {0} /\ Len(t) = Len(s) - 1
      /\ \A k \in 1 .. Len(t) : t[k] = s[k + 1]
      /\ Head(s) = s[1]
  OBVIOUS
<1> HIDE DEF t
<1>2. ASSUME NEW k \in 1 .. Len(t), t[k][1] \in {"pack", "unpack", "switch"}, NEW i \in legacy2
      PROVE  \E j \in 1 .. (k - 1) : t[j] = <<"migrate", i>>
  <2>1. /\ k + 1 \in 1 .. Len(s) /\ s[k + 1][1] \in {"pack", "unpack", "switch"}
        /\ (k + 1) - 1 = k
    BY <1>1, <1>2
  <2>2. PICK j \in 1 .. k : s[j] = <<"migrate", i>>
    BY <2>1, <1>2 DEF InOrder
  <2>3. j # 1
    BY <2>2, <1>1, <1>2
  <2>4. j - 1 \in 1 .. (k - 1) /\ t[j - 1] = s[j]
    BY <2>3, <1>1
  <2> QED  BY <2>4, <2>2
<1>3. ASSUME NEW k \in 1 .. Len(t), t[k][1] \in {"undisable", "create"}
      PROVE  /\ \A i \in moving2 : \E j \in 1 .. (k - 1) : t[j] = <<"finish", i>>
             /\ \A j \in 1 .. (k - 1) : t[j][1] \notin {"pack", "unpack", "switch"}
  <2>1. /\ k + 1 \in 1 .. Len(s) /\ s[k + 1][1] \in {"undisable", "create"}
        /\ (k + 1) - 1 = k
    BY <1>1, <1>3
  <2>2. /\ \A i \in moving : \E j \in 1 .. k : s[j] = <<"finish", i>>
        /\ \A j \in 1 .. k : s[j][1] \notin {"pack", "unpack", "switch"}
    BY <2>1 DEF InOrder
  <2>3. ASSUME NEW i \in moving2
        PROVE  \E j \in 1 .. (k - 1) : t[j] = <<"finish", i>>
    <3>1. i \in moving
      BY <2>2, <1>1
    <3>2. PICK j \in 1 .. k : s[j] = <<"finish", i>>
      BY <3>1, <2>2
    <3>3. j # 1
      BY <3>2, <1>1
    <3>4. j - 1 \in 1 .. (k - 1) /\ t[j - 1] = s[j]
      BY <3>3, <1>1
    <3> QED  BY <3>4, <3>2
  <2>4. ASSUME NEW j \in 1 .. (k - 1)
        PROVE  t[j][1] \notin {"pack", "unpack", "switch"}
    BY <2>2, <1>1
  <2> QED  BY <2>3, <2>4
<1>4. ASSUME NEW k \in 1 .. Len(t), t[k][1] = "lv"
      PROVE  t[k][2] = Live
  <2>1. k + 1 \in 1 .. Len(s) /\ k + 1 # 1 /\ s[k + 1][1] = "lv" /\ t[k] = s[k + 1]
    BY <1>1, <1>4
  <2> QED  BY <2>1 DEF InOrder
<1>5. InOrder(t, legacy2, moving2)
  BY <1>2, <1>3, <1>4 DEF InOrder
<1> QED  BY <1>1, <1>4, <1>5 DEF t

\* A step is put before the rest of a program.
LEMMA PushInOrder ==
    ASSUME NEW t \in Seq(Steps), NEW legacy, NEW moving, InOrder(t, legacy, moving),
           \A k \in 1 .. Len(t) : t[k][1] = "lv" => t[k][2] = Live,
           NEW x \in Steps, x[1] \in {"finish", "lv"}
    PROVE  /\ << x >> \o t \in Seq(Steps)
           /\ InOrder(<< x >> \o t, legacy, moving)
           /\ Head(<< x >> \o t) = x
<1> DEFINE s == << x >> \o t
<1>1. /\ s \in Seq(Steps) /\ Len(t) \in Nat /\ Len(s) = Len(t) + 1
      /\ \A k \in 1 .. Len(t) : s[k + 1] = t[k]
      /\ s[1] = x /\ Head(s) = x
  OBVIOUS
<1> HIDE DEF s
<1>2. ASSUME NEW k \in 1 .. Len(s), s[k][1] \in {"pack", "unpack", "switch"}, NEW i \in legacy
      PROVE  \E j \in 1 .. (k - 1) : s[j] = <<"migrate", i>>
  <2>1. k - 1 \in 1 .. Len(t) /\ t[k - 1] = s[k] /\ (k - 1) - 1 = k - 2
    <3>1. k # 1
      BY <1>1, <1>2
    <3> QED  BY <3>1, <1>1
  <2>2. PICK j \in 1 .. (k - 2) : t[j] = <<"migrate", i>>
    BY <2>1, <1>2 DEF InOrder
  <2>3. j \in 1 .. Len(t) /\ j + 1 \in 1 .. (k - 1)
    BY <1>1, <2>1
  <2>4. s[j + 1] = t[j]
    BY <1>1, <2>3
  <2> QED  BY <2>2, <2>3, <2>4
<1>3. ASSUME NEW k \in 1 .. Len(s), s[k][1] \in {"undisable", "create"}
      PROVE  /\ \A i \in moving : \E j \in 1 .. (k - 1) : s[j] = <<"finish", i>>
             /\ \A j \in 1 .. (k - 1) : s[j][1] \notin {"pack", "unpack", "switch"}
  <2>1. k - 1 \in 1 .. Len(t) /\ t[k - 1] = s[k] /\ (k - 1) - 1 = k - 2
    <3>1. k # 1
      BY <1>1, <1>3
    <3> QED  BY <3>1, <1>1
  <2>2. /\ \A i \in moving : \E j \in 1 .. (k - 2) : t[j] = <<"finish", i>>
        /\ \A j \in 1 .. (k - 2) : t[j][1] \notin {"pack", "unpack", "switch"}
    BY <2>1, <1>3 DEF InOrder
  <2>3. ASSUME NEW i \in moving
        PROVE  \E j \in 1 .. (k - 1) : s[j] = <<"finish", i>>
    <3>1. PICK j \in 1 .. (k - 2) : t[j] = <<"finish", i>>
      BY <2>2
    <3>2. j + 1 \in 1 .. (k - 1) /\ s[j + 1] = t[j]
      BY <1>1, <2>1
    <3> QED  BY <3>1, <3>2
  <2>4. ASSUME NEW j \in 1 .. (k - 1)
        PROVE  s[j][1] \notin {"pack", "unpack", "switch"}
    <3>1. CASE j = 1
      BY <3>1, <1>1
    <3>2. CASE j # 1
      <4>1. j - 1 \in 1 .. (k - 2) /\ s[j] = t[j - 1]
        BY <3>2, <1>1, <2>1
      <4> QED  BY <4>1, <2>2
    <3> QED  BY <3>1, <3>2
  <2> QED  BY <2>3, <2>4
<1>4. ASSUME NEW k \in 1 .. Len(s), s[k][1] = "lv", k # 1
      PROVE  s[k][2] = Live
  <2>1. k - 1 \in 1 .. Len(t) /\ t[k - 1] = s[k]
    BY <1>1, <1>4
  <2> QED  BY <2>1, <1>4
<1>5. InOrder(s, legacy, moving)
  BY <1>2, <1>3, <1>4 DEF InOrder
<1> QED  BY <1>1, <1>5 DEF s

\* dualdata_switchtodata begins when nothing is left to migrate.
LEMMA SwitchInOrder ==
    ASSUME NEW s \in Seq(Steps), s # <<>>, NEW legacy, NEW moving,
           InOrder(s, legacy, moving), NEW u \in Systems, Head(s) = <<"switch", u>>
    PROVE  /\ SwitchProgram(u) \o Tail(s) \in Seq(Steps)
           /\ InOrder(SwitchProgram(u) \o Tail(s), legacy, moving)
           /\ Head(SwitchProgram(u) \o Tail(s)) = <<"pack", Other(u)>>
<1> DEFINE t == Tail(s)
           p == SwitchProgram(u) \o t
<1>1. /\ t \in Seq(Steps) /\ Len(s) \in Nat \ {0} /\ Len(t) = Len(s) - 1
      /\ \A k \in 1 .. Len(t) : t[k] = s[k + 1]
      /\ Head(s) = s[1]
  OBVIOUS
<1>2. /\ SwitchProgram(u) \in Seq(Steps) /\ Len(SwitchProgram(u)) = 4
      /\ SwitchProgram(u)[1] = <<"pack", Other(u)>> /\ SwitchProgram(u)[2] = <<"unpack", u>>
      /\ SwitchProgram(u)[3] = <<"drain", u>> /\ SwitchProgram(u)[4] = <<"lv", Live>>
  <2>1. Other(u) \in Systems
    BY DEF Other, Systems
  <2>2. {<<"pack", Other(u)>>, <<"unpack", u>>, <<"drain", u>>, <<"lv", Live>>} \subseteq Steps
    BY <2>1 DEF Steps
  <2> QED  BY <2>2 DEF SwitchProgram
<1> HIDE DEF t
<1>3. /\ p \in Seq(Steps) /\ Len(p) = Len(t) + 4
      /\ \A k \in 1 .. Len(t) : p[k + 4] = t[k]
      /\ p[1] = <<"pack", Other(u)>> /\ p[2] = <<"unpack", u>>
      /\ p[3] = <<"drain", u>> /\ p[4] = <<"lv", Live>>
      /\ Head(p) = p[1]
  <2> DEFINE q == SwitchProgram(u)
  <2>1. q \in Seq(Steps) /\ Len(q) = 4
    BY <1>2
  <2>2. p = q \o t
    OBVIOUS
  <2> HIDE DEF p, q
  <2>3. t \in Seq(Steps) /\ Len(t) \in Nat
    BY <1>1
  <2>4. /\ p \in Seq(Steps) /\ Len(p) = Len(q) + Len(t)
        /\ \A k \in 1 .. Len(q) : p[k] = q[k]
        /\ \A k \in 1 .. Len(t) : p[Len(q) + k] = t[k]
    BY <2>1, <2>2, <2>3, Chain, Zenon
  <2>5. Len(p) = Len(t) + 4 /\ \A k \in 1 .. Len(t) : p[k + 4] = t[k]
    BY <2>1, <2>3, <2>4
  <2>6. p[1] = q[1] /\ p[2] = q[2] /\ p[3] = q[3] /\ p[4] = q[4]
    BY <2>1, <2>4
  <2>7. Head(p) = p[1]
    BY <2>3, <2>4, <2>5
  <2> QED  BY <2>4, <2>5, <2>6, <2>7, <1>2 DEF q
<1> HIDE DEF p
<1>4. legacy = {}
  <2>1. 1 \in 1 .. Len(s) /\ s[1][1] = "switch" /\ 1 .. (1 - 1) = {}
    BY <1>1
  <2> QED  BY <2>1 DEF InOrder
<1>5. \A k \in 1 .. Len(t) : t[k][1] \notin {"undisable", "create"}
  <2>1. SUFFICES ASSUME NEW k \in 1 .. Len(t), t[k][1] \in {"undisable", "create"}
                 PROVE  FALSE
    OBVIOUS
  <2>2. k + 1 \in 1 .. Len(s) /\ s[k + 1][1] \in {"undisable", "create"} /\ 1 \in 1 .. k
    BY <1>1, <2>1
  <2>3. s[1][1] # "switch"
    BY <2>2 DEF InOrder
  <2> QED  BY <2>3, <1>1
<1>6. \A k \in 1 .. Len(t) : t[k][1] = "lv" => t[k][2] = Live
  <2> SUFFICES ASSUME NEW k \in 1 .. Len(t), t[k][1] = "lv"
               PROVE  t[k][2] = Live
    OBVIOUS
  <2>1. k + 1 \in 1 .. Len(s) /\ k + 1 # 1 /\ s[k + 1][1] = "lv" /\ t[k] = s[k + 1]
    BY <1>1
  <2> QED  BY <2>1 DEF InOrder
<1>7. \A k \in 1 .. Len(p) : /\ p[k][1] \notin {"undisable", "create"}
                             /\ p[k][1] = "lv" => p[k][2] = Live
  <2> SUFFICES ASSUME NEW k \in 1 .. Len(p)
               PROVE  /\ p[k][1] \notin {"undisable", "create"}
                      /\ p[k][1] = "lv" => p[k][2] = Live
    OBVIOUS
  <2>1. k \in {1, 2, 3, 4} \/ (k - 4 \in 1 .. Len(t) /\ (k - 4) + 4 = k)
    <3>1. Len(t) \in Nat /\ Len(p) = Len(t) + 4
      BY <1>1, <1>3
    <3> QED  BY <3>1
  <2>2. CASE k \in {1, 2, 3, 4}
    BY <2>2, <1>3
  <2>3. CASE k - 4 \in 1 .. Len(t) /\ (k - 4) + 4 = k
    <3>1. p[k] = t[k - 4]
      BY <2>3, <1>3
    <3> QED  BY <3>1, <2>3, <1>5, <1>6
  <2> QED  BY <2>1, <2>2, <2>3
<1>8. InOrder(p, legacy, moving)
  BY <1>4, <1>7 DEF InOrder
<1> QED  BY <1>3, <1>8 DEF p, t

\* A program so far: it has finished and migrated everything, and not begun to
\* switch.
Calm(p) == \A k \in 1 .. Len(p) : p[k][1] \notin {"pack", "unpack", "switch", "lv"}

Finishes(p) ==
    \A i \in Systems : /\ \E j \in 1 .. Len(p) : p[j] = <<"migrate", i>>
                       /\ \E j \in 1 .. Len(p) : p[j] = <<"finish", i>>

Opened(p) == p \in Seq(Steps) /\ Calm(p) /\ Finishes(p) /\ InOrder(p, Systems, Systems)

LEMMA OpenIsOpened == Opened(Open)
<1>1. {<<"clean", 0>>, <<"finish", 1>>, <<"finish", 2>>,
       <<"migrate", 1>>, <<"migrate", 2>>, <<"flag", 0>>} \subseteq Steps
  BY DEF Steps, Systems
<1>2. Open \in Seq(Steps)
  BY <1>1 DEF Open
<1>3. /\ Len(Open) = 6
      /\ Open[1] = <<"clean", 0>> /\ Open[2] = <<"finish", 1>> /\ Open[3] = <<"finish", 2>>
      /\ Open[4] = <<"migrate", 1>> /\ Open[5] = <<"migrate", 2>> /\ Open[6] = <<"flag", 0>>
  BY DEF Open
<1>4. \A k \in 1 .. Len(Open) : Open[k][1] \in {"clean", "finish", "migrate", "flag"}
  <2> SUFFICES ASSUME NEW k \in 1 .. 6
               PROVE  Open[k][1] \in {"clean", "finish", "migrate", "flag"}
    BY <1>3
  <2>1. k \in {1, 2, 3, 4, 5, 6}
    OBVIOUS
  <2> QED  BY <2>1, <1>3
<1>5. Calm(Open)
  BY <1>4 DEF Calm
<1>6. Finishes(Open)
  BY <1>3 DEF Finishes, Systems
<1>7. InOrder(Open, Systems, Systems)
  BY <1>4 DEF InOrder
<1> QED  BY <1>2, <1>5, <1>6, <1>7 DEF Opened

\* Steps before opening.
LEMMA OpenAfter ==
    ASSUME NEW p \in Seq(Steps), \A k \in 1 .. Len(p) : p[k][1] \in {"mark", "mount"}
    PROVE  Opened(p \o Open)
<1> DEFINE q == Open
           s == p \o q
<1>1. q \in Seq(Steps) /\ Calm(q) /\ Finishes(q) /\ InOrder(q, Systems, Systems)
  BY OpenIsOpened DEF Opened
<1>2. /\ s \in Seq(Steps) /\ Len(s) = Len(p) + Len(q) /\ Len(p) \in Nat /\ Len(q) \in Nat
      /\ \A k \in 1 .. Len(p) : s[k] = p[k]
      /\ \A k \in 1 .. Len(q) : s[Len(p) + k] = q[k]
  BY <1>1, Chain
<1> HIDE DEF s, q
<1>3. ASSUME NEW k \in 1 .. Len(s)
      PROVE  \/ s[k][1] \in {"mark", "mount"}
             \/ k - Len(p) \in 1 .. Len(q) /\ s[k] = q[k - Len(p)]
  <2>1. CASE k <= Len(p)
    BY <2>1, <1>2
  <2>2. CASE k > Len(p)
    <3>1. k - Len(p) \in 1 .. Len(q) /\ Len(p) + (k - Len(p)) = k
      BY <2>2, <1>2
    <3> QED  BY <3>1, <1>2
  <2> QED  BY <2>1, <2>2, <1>2
<1>4. Calm(s)
  BY <1>1, <1>3 DEF Calm
<1>5. Finishes(s)
  <2>1. \A j \in 1 .. Len(q) : Len(p) + j \in 1 .. Len(s) /\ s[Len(p) + j] = q[j]
    BY <1>2
  <2> QED  BY <2>1, <1>1 DEF Finishes
<1>6. \A k \in 1 .. Len(s) : s[k][1] \notin {"undisable", "create"}
  <2>1. \A k \in 1 .. Len(q) : q[k][1] \notin {"undisable", "create"}
    <3>1. \A k \in 1 .. 6 : k \in {1, 2, 3, 4, 5, 6}
      OBVIOUS
    <3> QED  BY <3>1 DEF q, Open
  <2> QED  BY <2>1, <1>3
<1>7. InOrder(s, Systems, Systems)
  BY <1>4, <1>6 DEF InOrder, Calm
<1> QED  BY <1>2, <1>4, <1>5, <1>7 DEF Opened, s, q

\* Steps after opening.
LEMMA AfterOpening ==
    ASSUME NEW p, Opened(p), NEW t \in Seq(Steps),
           \A k \in 1 .. Len(t) : t[k][1] \notin {"pack", "unpack", "lv"},
           \/ Calm(t)
           \/ \A k \in 1 .. Len(t) : t[k][1] \notin {"undisable", "create"}
    PROVE  /\ p \o t \in Seq(Steps)
           /\ InOrder(p \o t, Systems, Systems)
           /\ \A k \in 1 .. Len(p \o t) : (p \o t)[k][1] # "lv"
           /\ Calm(t) => Opened(p \o t)
<1> DEFINE s == p \o t
<1>1. p \in Seq(Steps) /\ Calm(p) /\ Finishes(p) /\ InOrder(p, Systems, Systems)
  BY DEF Opened
<1>2. /\ s \in Seq(Steps) /\ Len(s) = Len(p) + Len(t) /\ Len(p) \in Nat /\ Len(t) \in Nat
      /\ \A k \in 1 .. Len(p) : s[k] = p[k]
      /\ \A k \in 1 .. Len(t) : s[Len(p) + k] = t[k]
  BY <1>1, Chain
<1> HIDE DEF s
<1>3. ASSUME NEW k \in 1 .. Len(s), k > Len(p)
      PROVE  k - Len(p) \in 1 .. Len(t) /\ s[k] = t[k - Len(p)]
  <2>1. k - Len(p) \in 1 .. Len(t) /\ Len(p) + (k - Len(p)) = k
    BY <1>3, <1>2
  <2> QED  BY <2>1, <1>2
<1>4. ASSUME NEW k \in 1 .. Len(s), k <= Len(p)
      PROVE  k \in 1 .. Len(p) /\ s[k] = p[k]
  BY <1>4, <1>2
<1>5. ASSUME NEW k \in 1 .. Len(s), k > Len(p), NEW i \in Systems
      PROVE  /\ \E j \in 1 .. (k - 1) : s[j] = <<"migrate", i>>
             /\ \E j \in 1 .. (k - 1) : s[j] = <<"finish", i>>
  <2>1. \A j \in 1 .. Len(p) : j \in 1 .. (k - 1) /\ s[j] = p[j]
    BY <1>5, <1>2
  <2> QED  BY <2>1, <1>1 DEF Finishes
<1>6. ASSUME NEW k \in 1 .. Len(s), s[k][1] \in {"pack", "unpack", "switch"}, NEW i \in Systems
      PROVE  \E j \in 1 .. (k - 1) : s[j] = <<"migrate", i>>
  <2>1. k > Len(p)
    <3>1. ~(k <= Len(p))
      BY <1>4, <1>6, <1>1 DEF Calm
    <3> QED  BY <3>1, <1>2
  <2> QED  BY <2>1, <1>5
<1>7. ASSUME NEW k \in 1 .. Len(s), s[k][1] \in {"undisable", "create"}
      PROVE  /\ \A i \in Systems : \E j \in 1 .. (k - 1) : s[j] = <<"finish", i>>
             /\ \A j \in 1 .. (k - 1) : s[j][1] \notin {"pack", "unpack", "switch"}
  <2>1. CASE k <= Len(p)
    <3>1. k \in 1 .. Len(p) /\ s[k] = p[k] /\ \A j \in 1 .. (k - 1) : s[j] = p[j]
      BY <2>1, <1>2
    <3>2. p[k][1] \in {"undisable", "create"}
      BY <3>1, <1>7
    <3>3. /\ \A i \in Systems : \E j \in 1 .. (k - 1) : p[j] = <<"finish", i>>
          /\ \A j \in 1 .. (k - 1) : p[j][1] \notin {"pack", "unpack", "switch"}
      BY <3>1, <3>2, <1>1 DEF InOrder
    <3> QED  BY <3>1, <3>3
  <2>2. CASE k > Len(p)
    <3>1. Calm(t)
      BY <2>2, <1>3, <1>7
    <3>2. \A j \in 1 .. (k - 1) : s[j][1] \notin {"pack", "unpack", "switch"}
      <4> SUFFICES ASSUME NEW j \in 1 .. (k - 1)
                   PROVE  s[j][1] \notin {"pack", "unpack", "switch"}
        OBVIOUS
      <4>1. j \in 1 .. Len(s)
        BY <1>2
      <4>2. j <= Len(p) \/ j > Len(p)
        BY <1>2
      <4> QED  BY <4>1, <4>2, <3>1, <1>1, <1>3, <1>4 DEF Calm
    <3> QED  BY <2>2, <3>2, <1>5
  <2>3. k <= Len(p) \/ k > Len(p)
    BY <1>2
  <2> QED  BY <2>1, <2>2, <2>3
<1>8. ASSUME NEW k \in 1 .. Len(s)
      PROVE  s[k][1] # "lv"
  <2>1. k <= Len(p) \/ k > Len(p)
    BY <1>2
  <2> QED  BY <2>1, <1>1, <1>3, <1>4 DEF Calm
<1>9. InOrder(s, Systems, Systems)
  BY <1>6, <1>7, <1>8 DEF InOrder
<1>10. ASSUME Calm(t) PROVE Opened(s)
  <2>1. Calm(s)
    <3>1. \A k \in 1 .. Len(s) : k <= Len(p) \/ k > Len(p)
      BY <1>2
    <3> QED  BY <3>1, <1>1, <1>3, <1>4, <1>10 DEF Calm
  <2>2. Finishes(s)
    <3>1. \A j \in 1 .. Len(p) : j \in 1 .. Len(s) /\ s[j] = p[j]
      BY <1>2
    <3> QED  BY <3>1, <1>1 DEF Finishes
  <2> QED  BY <1>2, <1>9, <2>1, <2>2 DEF Opened
<1> QED  BY <1>2, <1>8, <1>9, <1>10 DEF s

\* What a command is started with.
Startable(s) ==
    /\ s \in Seq(Steps)
    /\ InOrder(s, Systems, Systems)
    /\ \A k \in 1 .. Len(s) : s[k][1] # "lv"

LEMMA ProgramsStartable ==
    ASSUME NEW w \in Systems
    PROVE  /\ Startable(SaveProgram(w)) /\ Startable(LoadProgram(w))
           /\ Startable(EnableProgram(w)) /\ Startable(DisableProgram) /\ Startable(Open)
<1>1. /\ {<<"mark", w>>, <<"mount", 0>>, <<"switch", w>>, <<"done", 0>>, <<"setprop", 0>>,
          <<"create", w>>} \subseteq Steps
      /\ {<<"undisable", 1>>, <<"undisable", 2>>, <<"disable", 1>>, <<"disable", 2>>} \subseteq Steps
  BY DEF Steps, Systems
<1>2. ASSUME NEW t, t = << <<"switch", w>>, <<"done", 0>> >>
             \/ t = << <<"setprop", 0>>, <<"switch", w>>, <<"done", 0>> >>
      PROVE  /\ t \in Seq(Steps)
             /\ \A k \in 1 .. Len(t) : t[k][1] \notin {"pack", "unpack", "lv", "undisable", "create"}
  <2>1. CASE t = << <<"switch", w>>, <<"done", 0>> >>
    <3>1. \A k \in 1 .. 2 : k \in {1, 2}
      OBVIOUS
    <3> QED  BY <2>1, <3>1, <1>1
  <2>2. CASE t = << <<"setprop", 0>>, <<"switch", w>>, <<"done", 0>> >>
    <3>1. \A k \in 1 .. 3 : k \in {1, 2, 3}
      OBVIOUS
    <3> QED  BY <2>2, <3>1, <1>1
  <2> QED  BY <2>1, <2>2, <1>2
<1>3. ASSUME NEW t, t = << <<"undisable", 1>>, <<"undisable", 2>> >>
             \/ t = << <<"disable", 1>>, <<"disable", 2>> >>
             \/ t = << <<"create", w>> >> \/ t = << <<"setprop", 0>> >> \/ t = Open
      PROVE  /\ t \in Seq(Steps) /\ Calm(t)
             /\ \A k \in 1 .. Len(t) : t[k][1] \notin {"pack", "unpack", "lv"}
  <2>1. t \in Seq(Steps) /\ Calm(t)
    <3>1. CASE t = << <<"undisable", 1>>, <<"undisable", 2>> >>
      <4>1. \A k \in 1 .. 2 : k \in {1, 2}
        OBVIOUS
      <4> QED  BY <3>1, <4>1, <1>1 DEF Calm
    <3>2. CASE t = << <<"disable", 1>>, <<"disable", 2>> >>
      <4>1. \A k \in 1 .. 2 : k \in {1, 2}
        OBVIOUS
      <4> QED  BY <3>2, <4>1, <1>1 DEF Calm
    <3>3. CASE t = << <<"create", w>> >>
      BY <3>3, <1>1 DEF Calm
    <3>4. CASE t = << <<"setprop", 0>> >>
      BY <3>4, <1>1 DEF Calm
    <3>5. CASE t = Open
      BY <3>5, OpenIsOpened DEF Opened
    <3> QED  BY <3>1, <3>2, <3>3, <3>4, <3>5, <1>3
  <2> QED  BY <2>1 DEF Calm
<1>4. Opened(<< <<"mount", 0>> >> \o Open)
  <2>1. << <<"mount", 0>> >> \in Seq(Steps)
    BY <1>1
  <2>2. \A k \in 1 .. Len(<< <<"mount", 0>> >>) : << <<"mount", 0>> >>[k][1] \in {"mark", "mount"}
    OBVIOUS
  <2> QED  BY <2>1, <2>2, OpenAfter
<1>5. Opened(<< <<"mark", w>>, <<"mount", 0>> >> \o Open)
  <2> DEFINE p == << <<"mark", w>>, <<"mount", 0>> >>
  <2>1. p \in Seq(Steps) /\ Len(p) = 2
    BY <1>1
  <2>2. \A k \in 1 .. Len(p) : p[k][1] \in {"mark", "mount"}
    <3>1. \A k \in 1 .. 2 : k \in {1, 2}
      OBVIOUS
    <3> QED  BY <3>1
  <2> HIDE DEF p
  <2>3. Opened(p \o Open)
    BY <2>1, <2>2, OpenAfter
  <2> QED  BY <2>3 DEF p
<1>6. ASSUME NEW p, Opened(p), NEW t,
             \/ t = << <<"switch", w>>, <<"done", 0>> >>
             \/ t = << <<"setprop", 0>>, <<"switch", w>>, <<"done", 0>> >>
      PROVE  Startable(p \o t)
  <2>1. /\ t \in Seq(Steps)
        /\ \A k \in 1 .. Len(t) : t[k][1] \notin {"pack", "unpack", "lv", "undisable", "create"}
    BY <1>2, <1>6
  <2> QED  BY <2>1, <1>6, AfterOpening DEF Startable
<1>7. ASSUME NEW p, Opened(p), NEW t,
             \/ t = << <<"undisable", 1>>, <<"undisable", 2>> >>
             \/ t = << <<"disable", 1>>, <<"disable", 2>> >>
             \/ t = << <<"create", w>> >> \/ t = << <<"setprop", 0>> >> \/ t = Open
      PROVE  Opened(p \o t)
  <2>1. /\ t \in Seq(Steps) /\ Calm(t)
        /\ \A k \in 1 .. Len(t) : t[k][1] \notin {"pack", "unpack", "lv"}
    BY <1>3, <1>7
  <2> QED  BY <2>1, <1>7, AfterOpening
<1>8. ASSUME NEW p, Opened(p) PROVE Startable(p)
  BY <1>8 DEF Startable, Opened, Calm
<1>9. Startable(SaveProgram(w))
  BY <1>5, <1>6 DEF SaveProgram
<1>10. Startable(LoadProgram(w))
  BY <1>4, <1>6 DEF LoadProgram
<1>11. Startable(EnableProgram(w))
  <2> DEFINE a == << <<"mount", 0>> >> \o Open
             b == a \o << <<"undisable", 1>>, <<"undisable", 2>> >>
             c == b \o Open
             d == c \o << <<"create", w>> >>
             e == d \o Open
  <2>1. EnableProgram(w) = e \o << <<"setprop", 0>>, <<"switch", w>>, <<"done", 0>> >>
    BY DEF EnableProgram
  <2>2. Opened(a)
    BY <1>4
  <2> HIDE DEF a
  <2>3. Opened(b)
    BY <2>2, <1>7
  <2> HIDE DEF b
  <2>4. Opened(c)
    BY <2>3, <1>7
  <2> HIDE DEF c
  <2>5. Opened(d)
    BY <2>4, <1>7
  <2> HIDE DEF d
  <2>6. Opened(e)
    BY <2>5, <1>7
  <2> HIDE DEF e
  <2> QED  BY <2>1, <2>6, <1>6
<1>12. Startable(DisableProgram)
  <2> DEFINE a == << <<"mount", 0>> >> \o Open
             b == a \o << <<"disable", 1>>, <<"disable", 2>> >>
             c == b \o Open
             d == c \o Open
             e == d \o << <<"setprop", 0>> >>
  <2>1. DisableProgram = e
    BY DEF DisableProgram
  <2>2. Opened(a)
    BY <1>4
  <2> HIDE DEF a
  <2>3. Opened(b)
    BY <2>2, <1>7
  <2> HIDE DEF b
  <2>4. Opened(c)
    BY <2>3, <1>7
  <2> HIDE DEF c
  <2>5. Opened(d)
    BY <2>4, <1>7
  <2> HIDE DEF d
  <2>6. Opened(e)
    BY <2>5, <1>7
  <2> HIDE DEF e
  <2> QED  BY <2>1, <2>6, <1>8
<1> QED  BY <1>8, <1>9, <1>10, <1>11, <1>12, OpenIsOpened

(***************************************************************************)
(* Directories and their entries.                                          *)
(***************************************************************************)

Contents == {NoDir} \cup SUBSET (UserEntries \cup {LayoutVersion})

DirsOK == fs \in [Dirs -> Contents] /\ Exists(Live)

\* The type invariant in parts.
FlagsOK == enabled \in BOOLEAN /\ dualprop \in BOOLEAN

OthersOK ==
    /\ mark \in Systems /\ which \in Systems
    /\ created \subseteq UserEntries
    /\ power \in {"off", "recovery", "android"}
    /\ harm \in {"none", "interrupted", "careless"}

LEMMA TypeParts == TypeOK <=> DirsOK /\ FlagsOK /\ OthersOK
BY DEF TypeOK, DirsOK, FlagsOK, OthersOK, Contents

LEMMA TypePartsNext == TypeOK' <=> DirsOK' /\ FlagsOK' /\ OthersOK'
BY DEF TypeOK, DirsOK, FlagsOK, OthersOK, Contents, Exists

\* No directory is mistaken for one that does not exist.
LEMMA Distinct ==
    /\ LayoutVersion \notin UserEntries
    /\ \A S \in SUBSET (UserEntries \cup {LayoutVersion}) : S # NoDir
    /\ NoDir # {}
    /\ \A e \in NoDir : e \notin UserEntries \cup {LayoutVersion}
<1> DEFINE none == [name |-> "no directory", batch |-> 0]
<1>1. \A e \in UserEntries : e.name \in Names
  BY DEF UserEntries, Batch
<1>2. LayoutVersion.name = ".layout_version" /\ none.name = "no directory"
  BY DEF LayoutVersion
<1>3. NoDir = {none}
  BY DEF NoDir
<1>4. LayoutVersion \notin UserEntries /\ none \notin UserEntries /\ none # LayoutVersion
  BY <1>1, <1>2, DualAssumption
<1> HIDE DEF none
<1> QED  BY <1>3, <1>4

LEMMA DirNames ==
    /\ Live \in Dirs
    /\ \A i \in Systems : {Sealed(i), Tmp(i), Off(i), Legacy(i)} \subseteq Dirs \ {Live}
    /\ \A i, j \in Systems :
        /\ Legacy(i) \notin {Sealed(j), Tmp(j), Off(j)}
        /\ Sealed(i) \notin {Tmp(j), Off(j)}
        /\ Tmp(i) # Off(j)
        /\ i # j => Legacy(i) # Legacy(j) /\ Sealed(i) # Sealed(j) /\ Tmp(i) # Tmp(j)
BY DEF Dirs, Live, Sealed, Tmp, Off, Legacy

OldDirs == {Legacy(i) : i \in Systems}

\* A directory gets another name.
LEMMA RenameKeeps ==
    ASSUME DirsOK, DataOK, created \subseteq UserEntries, created' = created, swept' = swept,
           NEW p \in Dirs \ {Live}, NEW q \in Dirs \ {Live}, p # q, q \notin OldDirs,
           Exists(p), ~Exists(q),
           fs' = [fs EXCEPT ![p] = NoDir, ![q] = fs[p]]
    PROVE  DirsOK' /\ DataOK'
<1>1. /\ fs'[p] = NoDir /\ fs'[q] = fs[p]
      /\ \A d \in Dirs : d \notin {p, q} => fs'[d] = fs[d]
      /\ fs[q] = NoDir /\ fs[p] # NoDir
      /\ fs' \in [Dirs -> Contents]
  BY DEF DirsOK, Exists, Contents
<1>2. \A e \in created : e \notin NoDir
  BY Distinct
<1>3. DirsOK'
  BY <1>1, DirNames DEF DirsOK, Exists
<1>4. EntriesAreKnown'
  <2>1. \A i \in Systems : Legacy(i) \in Dirs /\ Legacy(i) # q
    BY DirNames DEF OldDirs
  <2> QED  BY <1>1, <2>1 DEF DataOK, EntriesAreKnown, Exists
<1>5. OnePlace'
  <2> SUFFICES ASSUME NEW e \in created, NEW d \in Dirs, NEW f \in Dirs, e \in fs'[d], e \in fs'[f]
               PROVE  d = f
    BY DEF OnePlace
  <2>1. d # p /\ f # p
    BY <1>1, <1>2
  <2>2. e \in fs[IF d = q THEN p ELSE d] /\ e \in fs[IF f = q THEN p ELSE f]
    BY <2>1, <1>1
  <2>3. (IF d = q THEN p ELSE d) = (IF f = q THEN p ELSE f)
    BY <2>2 DEF DataOK, OnePlace
  <2> QED  BY <2>1, <2>3
<1>6. SomePlace'
  <2> SUFFICES ASSUME NEW e \in created, NEW d \in Dirs, e \in fs[d]
               PROVE  \E f \in Dirs : e \in fs'[f]
    BY DEF DataOK, SomePlace
  <2>1. CASE d = p
    BY <2>1, <1>1
  <2>2. CASE d # p
    BY <2>2, <1>1, <1>2
  <2> QED  BY <2>1, <2>2
<1> QED  BY <1>3, <1>4, <1>5, <1>6 DEF DataOK

\* One entry is moved.
LEMMA MoveKeeps ==
    ASSUME DirsOK, DataOK, created \subseteq UserEntries, created' = created, swept' = swept,
           NEW p \in Dirs, NEW q \in Dirs, p # q, q \notin OldDirs,
           Exists(p), Exists(q), NEW e \in fs[p],
           fs' = [fs EXCEPT ![p] = @ \ {e}, ![q] = @ \cup {e}]
    PROVE  DirsOK' /\ DataOK' /\ \A d \in Dirs : Exists(d)' <=> Exists(d)
<1>1. /\ fs'[p] = fs[p] \ {e} /\ fs'[q] = fs[q] \cup {e}
      /\ \A d \in Dirs : d \notin {p, q} => fs'[d] = fs[d]
      /\ fs[q] # NoDir /\ fs[p] # NoDir
      /\ DOMAIN fs' = Dirs /\ fs' = [d \in Dirs |-> fs'[d]]
  BY DEF DirsOK, Exists
<1>2. fs[p] \in SUBSET (UserEntries \cup {LayoutVersion}) /\ fs[q] \in SUBSET (UserEntries \cup {LayoutVersion})
  BY <1>1 DEF DirsOK, Contents
<1>3. fs'[p] \in SUBSET (UserEntries \cup {LayoutVersion}) /\ fs'[q] \in SUBSET (UserEntries \cup {LayoutVersion})
  BY <1>1, <1>2
<1>4. fs'[p] # NoDir /\ fs'[q] # NoDir
  BY <1>3, Distinct
<1>5. \A d \in Dirs : Exists(d)' <=> Exists(d)
  BY <1>1, <1>4 DEF Exists
<1>6. DirsOK'
  <2>1. \A d \in Dirs : fs'[d] \in Contents
    BY <1>1, <1>3 DEF DirsOK, Contents
  <2>2. fs' \in [Dirs -> Contents]
    BY <2>1, <1>1
  <2> QED  BY <2>2, <1>5, DirNames DEF DirsOK
<1>7. EntriesAreKnown'
  <2>1. \A i \in Systems : Legacy(i) \in Dirs /\ Legacy(i) # q
    BY DirNames DEF OldDirs
  <2>2. \A d \in Dirs : Exists(d)' => fs'[d] \subseteq created \cup {LayoutVersion}
    BY <1>1, <1>5 DEF DataOK, EntriesAreKnown
  <2>3. \A i \in Systems : Exists(Legacy(i))' => \A f \in fs'[Legacy(i)] : f.batch = 0
    BY <1>1, <1>5, <2>1 DEF DataOK, EntriesAreKnown
  <2> QED  BY <2>2, <2>3 DEF EntriesAreKnown, Exists
<1>8. OnePlace'
  BY <1>1 DEF DataOK, OnePlace
<1>9. SomePlace'
  <2> SUFFICES ASSUME NEW f \in created, NEW d \in Dirs, f \in fs[d]
               PROVE  \E g \in Dirs : f \in fs'[g]
    BY DEF DataOK, SomePlace
  <2>1. f \in fs'[d] \/ f \in fs'[q]
    BY <1>1
  <2> QED  BY <2>1
<1> QED  BY <1>5, <1>6, <1>7, <1>8, <1>9 DEF DataOK

\* Empty directories are made or removed.
LEMMA EmptyKeeps ==
    ASSUME DirsOK, DataOK, created \subseteq UserEntries, created' = created, swept' = swept,
           fs' \in [Dirs -> Contents], fs'[Live] = fs[Live],
           \A d \in Dirs : \/ fs'[d] = fs[d]
                           \/ fs'[d] \in {NoDir, {}} /\ fs[d] \in {NoDir, {}}
    PROVE  DirsOK' /\ DataOK'
<1>1. \A e \in created : e \notin NoDir
  BY Distinct
<1>2. DirsOK'
  BY DEF DirsOK, Exists
<1>3. EntriesAreKnown'
  <2>1. \A d \in Dirs : fs'[d] # NoDir => (fs[d] # NoDir /\ fs'[d] = fs[d]) \/ fs'[d] = {}
    OBVIOUS
  <2>2. \A d \in Dirs : fs'[d] # NoDir => fs'[d] \subseteq created \cup {LayoutVersion}
    BY <2>1 DEF DataOK, EntriesAreKnown, Exists
  <2>3. \A i \in Systems : fs'[Legacy(i)] # NoDir => \A e \in fs'[Legacy(i)] : e.batch = 0
    BY <2>1, DirNames DEF DataOK, EntriesAreKnown, Exists
  <2> QED  BY <2>2, <2>3 DEF EntriesAreKnown, Exists
<1>4. \A e \in created, d \in Dirs : e \in fs'[d] <=> e \in fs[d]
  BY <1>1
<1>5. OnePlace' /\ SomePlace'
  BY <1>4 DEF DataOK, OnePlace, SomePlace
<1> QED  BY <1>2, <1>3, <1>5 DEF DataOK

\* A directory is discarded with entries that may be lost, or that the layout
\* upgrade has swept.
LEMMA DiscardKeeps ==
    ASSUME DirsOK, DataOK, created \subseteq UserEntries, created' = created,
           NEW p \in Dirs \ {Live}, Exists(p), swept \subseteq swept',
           p \in OldDirs \/ fs[p] \subseteq swept',
           fs' = [fs EXCEPT ![p] = NoDir]
    PROVE  DirsOK' /\ DataOK'
<1>1. /\ fs'[p] = NoDir /\ \A d \in Dirs : d # p => fs'[d] = fs[d]
      /\ fs' \in [Dirs -> Contents]
  BY DEF DirsOK, Contents
<1>2. \A e \in created : e \notin NoDir
  BY Distinct
<1>3. DirsOK'
  BY <1>1, DirNames DEF DirsOK, Exists
<1>4. EntriesAreKnown'
  <2>1. \A i \in Systems : Legacy(i) \in Dirs
    BY DirNames
  <2> QED  BY <1>1, <2>1 DEF DataOK, EntriesAreKnown, Exists
<1>5. OnePlace'
  BY <1>1, <1>2 DEF DataOK, OnePlace
<1>6. SomePlace'
  <2> SUFFICES ASSUME NEW e \in created
               PROVE  (\E d \in Dirs : e \in fs'[d]) \/ e.batch = 0 \/ e \in swept'
    BY DEF SomePlace
  <2>1. CASE \E d \in Dirs : e \in fs[d]
    <3>1. PICK d \in Dirs : e \in fs[d]
      BY <2>1
    <3>2. CASE d # p
      BY <3>1, <3>2, <1>1
    <3>3. CASE d = p
      <4>1. CASE p \in OldDirs
        <5>1. PICK i \in Systems : p = Legacy(i)
          BY <4>1 DEF OldDirs
        <5> QED  BY <3>1, <3>3, <5>1 DEF DataOK, EntriesAreKnown
      <4>2. CASE fs[p] \subseteq swept'
        BY <3>1, <3>3, <4>2
      <4> QED  BY <4>1, <4>2
    <3> QED  BY <3>2, <3>3
  <2>2. CASE e.batch = 0 \/ e \in swept
    BY <2>2
  <2> QED  BY <2>1, <2>2 DEF DataOK, SomePlace
<1> QED  BY <1>3, <1>4, <1>5, <1>6 DEF DataOK

\* New entries, and the layout version, appear in an existing directory.
LEMMA AddKeeps ==
    ASSUME DirsOK, DataOK, created \subseteq UserEntries, swept' = swept,
           NEW p \in Dirs, p \notin OldDirs, Exists(p),
           NEW new \in SUBSET (UserEntries \ created), created' = created \cup new,
           fs' = [fs EXCEPT ![p] = @ \cup new \cup {LayoutVersion}]
    PROVE  DirsOK' /\ DataOK' /\ \A d \in Dirs : Exists(d)' <=> Exists(d)
<1>1. /\ fs'[p] = fs[p] \cup new \cup {LayoutVersion}
      /\ \A d \in Dirs : d # p => fs'[d] = fs[d]
      /\ fs[p] # NoDir
      /\ DOMAIN fs' = Dirs /\ fs' = [d \in Dirs |-> fs'[d]]
  BY DEF DirsOK, Exists
<1>2. fs[p] \in SUBSET (UserEntries \cup {LayoutVersion})
  BY <1>1 DEF DirsOK, Contents
<1>3. fs'[p] \in SUBSET (UserEntries \cup {LayoutVersion})
  BY <1>1, <1>2
<1>4. fs'[p] # NoDir
  BY <1>3, Distinct
<1>5. \A d \in Dirs : Exists(d)' <=> Exists(d)
  BY <1>1, <1>4 DEF Exists
<1>6. DirsOK'
  <2>1. \A d \in Dirs : fs'[d] \in Contents
    BY <1>1, <1>3 DEF DirsOK, Contents
  <2>2. fs' \in [Dirs -> Contents]
    BY <2>1, <1>1
  <2> QED  BY <2>2, <1>5, DirNames DEF DirsOK
<1>7. EntriesAreKnown'
  <2>1. \A i \in Systems : Legacy(i) \in Dirs /\ Legacy(i) # p
    BY DirNames DEF OldDirs
  <2>2. \A d \in Dirs : Exists(d)' => fs'[d] \subseteq created' \cup {LayoutVersion}
    BY <1>1, <1>5 DEF DataOK, EntriesAreKnown
  <2>3. \A i \in Systems : Exists(Legacy(i))' => \A f \in fs'[Legacy(i)] : f.batch = 0
    BY <1>1, <1>5, <2>1 DEF DataOK, EntriesAreKnown
  <2> QED  BY <2>2, <2>3 DEF EntriesAreKnown, Exists
<1>8. OnePlace'
  <2>1. \A d \in Dirs, e \in new : e \notin fs[d]
    <3> SUFFICES ASSUME NEW d \in Dirs, NEW e \in new
                 PROVE  e \notin fs[d]
      OBVIOUS
    <3>1. CASE Exists(d)
      BY <3>1, Distinct DEF DataOK, EntriesAreKnown
    <3>2. CASE ~Exists(d)
      BY <3>2, Distinct DEF Exists
    <3> QED  BY <3>1, <3>2
  <2>2. \A e \in created, d \in Dirs : e \in fs'[d] <=> e \in fs[d]
    BY <1>1, Distinct
  <2>3. \A e \in new, d \in Dirs : e \in fs'[d] => d = p
    BY <1>1, <2>1
  <2>4. ASSUME NEW e \in created', NEW d \in Dirs, NEW f \in Dirs, e \in fs'[d], e \in fs'[f]
        PROVE  d = f
    BY <2>2, <2>3, <2>4 DEF DataOK, OnePlace
  <2> QED  BY <2>4 DEF OnePlace
<1>9. SomePlace'
  <2> SUFFICES ASSUME NEW e \in created'
               PROVE  (\E d \in Dirs : e \in fs'[d]) \/ e.batch = 0 \/ e \in swept
    BY DEF SomePlace
  <2>1. CASE e \in new
    BY <2>1, <1>1
  <2>2. CASE e \in created
    <3>1. \A d \in Dirs : e \in fs[d] => e \in fs'[d]
      BY <1>1
    <3> QED  BY <2>2, <3>1 DEF DataOK, SomePlace
  <2> QED  BY <2>1, <2>2
<1> QED  BY <1>5, <1>6, <1>7, <1>8, <1>9 DEF DataOK

(***************************************************************************)
(* The steps of the running command.                                       *)
(***************************************************************************)

SystemSteps ==
    {"mark", "finish", "migrate", "switch", "pack", "unpack", "drain",
     "undisable", "disable", "create"}

LEMMA Argument ==
    ASSUME ProgramFits, NEW op, At(op)
    PROVE  /\ todo \in Seq(Steps) /\ todo # <<>> /\ Head(todo) = <<op, Arg>>
           /\ op \in SystemSteps => Arg \in Systems
           /\ op = "lv" => Arg \in {Live, Sealed(1), Sealed(2)} /\ Exists(Arg)
<1>1. todo \in Seq(Steps) /\ todo # <<>> /\ Head(todo)[1] = op /\ Arg = Head(todo)[2]
  BY DEF ProgramFits, At, Arg
<1>2. Head(todo) \in Steps
  BY <1>1
<1>3. /\ Head(todo) = <<op, Arg>>
      /\ op \in SystemSteps => Arg \in Systems
      /\ op = "lv" => Arg \in {Live, Sealed(1), Sealed(2)}
  BY <1>1, <1>2 DEF Steps, SystemSteps
<1> QED  BY <1>1, <1>3 DEF ProgramFits

\* At the head of the program, what InOrder says of a step holds already.
LEMMA HeadInOrder ==
    ASSUME ProgramFits, NEW op, At(op)
    PROVE  /\ op \in {"pack", "unpack", "switch"} => LegacyOf = {}
           /\ op \in {"undisable", "create"} => MovingOf = {}
<1>1. todo \in Seq(Steps) /\ todo # <<>> /\ Head(todo) = <<op, Arg>>
  BY Argument
<1>2. 1 \in 1 .. Len(todo) /\ todo[1][1] = op /\ 1 .. (1 - 1) = {}
  BY <1>1
<1> QED  BY <1>2 DEF ProgramFits, InOrder

LEMMA PopFits ==
    ASSUME ProgramFits, todo # <<>>, todo' = Tail(todo), Exists(Live)',
           LegacyOf' \subseteq LegacyOf,
           \A i \in LegacyOf' : Head(todo) # <<"migrate", i>>,
           \A i \in MovingOf' : /\ Head(todo) # <<"finish", i>>
                                /\ i \in MovingOf \/ Head(todo)[1] \in {"pack", "unpack"}
    PROVE  /\ ProgramFits'
           /\ \A k \in 1 .. Len(todo') : todo'[k][1] = "lv" => todo'[k][2] = Live
<1>1. todo \in Seq(Steps) /\ InOrder(todo, LegacyOf, MovingOf)
  BY DEF ProgramFits
<1>2. /\ todo' \in Seq(Steps)
      /\ InOrder(todo', LegacyOf', MovingOf')
      /\ \A k \in 1 .. Len(todo') : todo'[k][1] = "lv" => todo'[k][2] = Live
  <2>1. Popped(todo, LegacyOf, MovingOf, LegacyOf', MovingOf')
    BY <1>1 DEF Popped
  <2> QED  BY <2>1, PopInOrder
<1>3. At("lv")' => Exists(Arg)'
  <2>1. ASSUME At("lv")' PROVE Arg' = Live
    <3>1. todo' # <<>> /\ Head(todo')[1] = "lv"
      BY <2>1 DEF At
    <3>2. 1 \in 1 .. Len(todo') /\ Head(todo') = todo'[1]
      BY <3>1, <1>2
    <3>3. todo'[1][2] = Live
      BY <3>1, <3>2, <1>2
    <3> QED  BY <3>2, <3>3 DEF Arg
  <2>2. Exists(Live)' <=> fs'[Live] # NoDir
    BY DEF Exists
  <2> QED  BY <2>1, <2>2 DEF Exists
<1>4. InOrder(todo, LegacyOf, MovingOf)' <=> InOrder(todo', LegacyOf', MovingOf')
  BY DEF InOrder
<1> QED  BY <1>2, <1>3, <1>4 DEF ProgramFits

\* Nothing changes which directories there are.
LEMMA SameDirs ==
    ASSUME \A d \in Dirs : Exists(d)' <=> Exists(d), NothingIsBuried
    PROVE  /\ NothingIsBuried' /\ LegacyOf' = LegacyOf /\ MovingOf' = MovingOf
<1>1. \A i \in Systems : /\ Exists(Sealed(i))' <=> Exists(Sealed(i))
                         /\ Exists(Tmp(i))' <=> Exists(Tmp(i))
                         /\ Exists(Legacy(i))' <=> Exists(Legacy(i))
  BY DirNames
<1> QED  BY <1>1 DEF NothingIsBuried, LegacyOf, MovingOf

LEMMA SameFs ==
    ASSUME DirsOK, DataOK, NothingIsBuried, UNCHANGED <<fs, created, swept>>
    PROVE  /\ DirsOK' /\ DataOK' /\ NothingIsBuried' /\ Exists(Live)'
           /\ LegacyOf' = LegacyOf /\ MovingOf' = MovingOf
           /\ \A d \in Dirs : Exists(d)' <=> Exists(d)
<1>1. \A d \in Dirs : Exists(d)' <=> Exists(d)
  BY DEF Exists
<1>2. DirsOK' /\ DataOK' /\ Exists(Live)'
  BY DEF DirsOK, DataOK, EntriesAreKnown, OnePlace, SomePlace, Exists
<1> QED  BY <1>1, <1>2, SameDirs

\* The part of the inductive invariant that is about directories and programs.
Core ==
    /\ DirsOK /\ created \subseteq UserEntries
    /\ ProgramFits
    /\ NothingIsBuried
    /\ DataOK

\* The steps that leave the directories alone.
LEMMA QuietStepsPreserve ==
    ASSUME Core, UNCHANGED <<fs, created, swept>>,
           WriteMark \/ Mount \/ FinishNothing \/ Flag \/ SetProp \/ Switch \/ Done
    PROVE  Core'
<1>1. /\ DirsOK' /\ DataOK' /\ NothingIsBuried' /\ Exists(Live)'
      /\ LegacyOf' = LegacyOf /\ MovingOf' = MovingOf
  BY SameFs DEF Core
<1>2. ProgramFits /\ (created \subseteq UserEntries)'
  BY DEF Core
<1>3. ASSUME NEW op \in {"mark", "mount", "flag", "setprop", "done"}, At(op), Pop
      PROVE  ProgramFits'
  <2>1. todo # <<>> /\ Head(todo) = <<op, Arg>>
    BY <1>2, <1>3, Argument
  <2> QED  BY <2>1, <1>1, <1>2, <1>3, PopFits DEF Pop
<1>4. CASE FinishNothing
  <2>1. At("finish") /\ ~Exists(Tmp(Arg)) /\ Pop
    BY <1>4 DEF FinishNothing
  <2>2. todo # <<>> /\ Head(todo) = <<"finish", Arg>>
    BY <1>2, <2>1, Argument
  <2>3. Arg \notin MovingOf
    BY <2>1 DEF MovingOf
  <2> QED  BY <2>1, <2>2, <2>3, <1>1, <1>2, PopFits DEF Pop, Core
<1>5. CASE Switch
  <2>1. At("switch") /\ todo' = (IF enabled THEN SwitchProgram(Arg) ELSE <<>>) \o Tail(todo)
    BY <1>5 DEF Switch
  <2>2. todo \in Seq(Steps) /\ todo # <<>> /\ Head(todo) = <<"switch", Arg>> /\ Arg \in Systems
    BY <1>2, <2>1, Argument DEF SystemSteps
  <2>3. CASE enabled
    <3>1. todo' = SwitchProgram(Arg) \o Tail(todo)
      BY <2>1, <2>3
    <3>2. InOrder(todo, LegacyOf, MovingOf)
      BY <1>2 DEF ProgramFits
    <3>3. /\ todo' \in Seq(Steps) /\ InOrder(todo', LegacyOf, MovingOf)
          /\ Head(todo') = <<"pack", Other(Arg)>>
      BY <3>1, <3>2, <2>2, SwitchInOrder
    <3>4. InOrder(todo, LegacyOf, MovingOf)'
      BY <3>3, <1>1 DEF InOrder
    <3>5. ~At("lv")'
      BY <3>3 DEF At
    <3>6. ProgramFits'
      BY <3>3, <3>4, <3>5 DEF ProgramFits
    <3> QED  BY <3>6, <1>1, <1>2 DEF Core
  <2>4. CASE ~enabled
    <3>1. todo' = Tail(todo)
      <4>1. Tail(todo) \in Seq(Steps) /\ todo' = <<>> \o Tail(todo)
        BY <2>1, <2>2, <2>4
      <4> QED  BY <4>1, ConcatEmptySeq
    <3> QED  BY <3>1, <2>2, <1>1, <1>2, PopFits DEF Core
  <2> QED  BY <2>3, <2>4
<1>6. CASE WriteMark \/ Mount \/ Flag \/ SetProp \/ Done
  <2>1. ProgramFits'
    BY <1>3, <1>6 DEF WriteMark, Mount, Flag, SetProp, Done
  <2> QED  BY <2>1, <1>1, <1>2 DEF Core
<1> QED  BY <1>4, <1>5, <1>6

\* dualdata_open.
LEMMA OpenStepsPreserve ==
    ASSUME Core, UNCHANGED <<created, swept>>,
           Clean \/ FinishMove \/ FinishRename \/ Migrate
    PROVE  Core'
<1>1. /\ DirsOK /\ DataOK /\ NothingIsBuried /\ ProgramFits /\ created \subseteq UserEntries
      /\ (created \subseteq UserEntries)'
  BY DEF Core
<1>2. CASE Clean
  <2>1. /\ At("clean") /\ Pop
        /\ fs' = [p \in Dirs |-> IF fs[p] = {} /\ p[1] \in {"sealed", "legacy"} THEN NoDir ELSE fs[p]]
    BY <1>2 DEF Clean
  <2>2. todo # <<>> /\ Head(todo) = <<"clean", Arg>>
    BY <1>1, <2>1, Argument
  <2>3. /\ \A d \in Dirs : fs'[d] = fs[d] \/ (fs'[d] = NoDir /\ fs[d] = {})
        /\ fs'[Live] = fs[Live]
        /\ \A i \in Systems : fs'[Tmp(i)] = fs[Tmp(i)]
    BY <2>1, DirNames DEF Live, Tmp
  <2>4. fs' \in [Dirs -> Contents]
    BY <2>1, <1>1 DEF DirsOK, Contents
  <2>5. DirsOK' /\ DataOK'
    BY <2>3, <2>4, <1>1, EmptyKeeps
  <2>6. \A i \in Systems : /\ Exists(Sealed(i))' => Exists(Sealed(i))
                           /\ Exists(Tmp(i))' <=> Exists(Tmp(i))
                           /\ Exists(Legacy(i))' => Exists(Legacy(i))
    BY <2>3, DirNames DEF Exists
  <2>7. NothingIsBuried' /\ LegacyOf' \subseteq LegacyOf /\ MovingOf' = MovingOf
    BY <2>6, <1>1 DEF NothingIsBuried, LegacyOf, MovingOf
  <2>8. ProgramFits'
    <3>1. Exists(Live)'
      BY <2>5 DEF DirsOK
    <3> QED  BY <3>1, <2>1, <2>2, <2>7, <1>1, PopFits DEF Pop
  <2> QED  BY <2>5, <2>7, <2>8, <1>1 DEF Core
<1>3. CASE FinishMove
  <2>1. At("finish") /\ Exists(Tmp(Arg)) /\ Move(Live, Tmp(Arg)) /\ todo' = todo
    BY <1>3 DEF FinishMove
  <2>2. Head(todo) = <<"finish", Arg>> /\ Arg \in Systems
    BY <1>1, <2>1, Argument DEF SystemSteps
  <2>3. /\ Live \in Dirs /\ Tmp(Arg) \in Dirs /\ Live # Tmp(Arg) /\ Tmp(Arg) \notin OldDirs
        /\ Exists(Live)
    BY <2>2, <1>1, DirNames DEF OldDirs, DirsOK
  <2>4. PICK e \in fs[Live] :
            fs' = [fs EXCEPT ![Live] = @ \ {e}, ![Tmp(Arg)] = @ \cup {e}]
    BY <2>1 DEF Move, Movable
  <2>5. DirsOK' /\ DataOK' /\ \A d \in Dirs : Exists(d)' <=> Exists(d)
    BY <2>1, <2>3, <2>4, <1>1, MoveKeeps
  <2>6. NothingIsBuried' /\ LegacyOf' = LegacyOf /\ MovingOf' = MovingOf
    BY <2>5, <1>1, SameDirs
  <2>7. ProgramFits'
    <3>1. InOrder(todo, LegacyOf, MovingOf)'
      BY <2>1, <2>6, <1>1 DEF ProgramFits, InOrder
    <3>2. ~At("lv")'
      BY <2>1, <2>2 DEF At
    <3> QED  BY <3>1, <3>2, <2>1, <1>1 DEF ProgramFits
  <2> QED  BY <2>5, <2>6, <2>7, <1>1 DEF Core
<1>4. CASE FinishRename
  <2>1. At("finish") /\ Exists(Tmp(Arg)) /\ Rename(Tmp(Arg), Sealed(Arg)) /\ Pop
    BY <1>4 DEF FinishRename
  <2>2. todo # <<>> /\ Head(todo) = <<"finish", Arg>> /\ Arg \in Systems
    BY <1>1, <2>1, Argument DEF SystemSteps
  <2>3. ~Exists(Sealed(Arg)) /\ \A i \in Systems : ~Exists(Legacy(i))
    BY <2>1, <2>2, <1>1 DEF NothingIsBuried
  <2>4. fs' = [fs EXCEPT ![Tmp(Arg)] = NoDir, ![Sealed(Arg)] = fs[Tmp(Arg)]]
    BY <2>1, <2>3 DEF Rename
  <2>5. /\ Tmp(Arg) \in Dirs \ {Live} /\ Sealed(Arg) \in Dirs \ {Live}
        /\ Tmp(Arg) # Sealed(Arg) /\ Sealed(Arg) \notin OldDirs
    BY <2>2, DirNames DEF OldDirs
  <2>6. DirsOK' /\ DataOK'
    BY <2>1, <2>3, <2>4, <2>5, <1>1, RenameKeeps
  <2>7. /\ fs'[Tmp(Arg)] = NoDir
        /\ \A d \in Dirs : d \notin {Tmp(Arg), Sealed(Arg)} => fs'[d] = fs[d]
    BY <2>4, <2>5, <1>1 DEF DirsOK
  <2>8. \A i \in Systems : /\ ~Exists(Legacy(i))'
                           /\ Exists(Tmp(i))' => Exists(Tmp(i)) /\ i # Arg
                           /\ i # Arg /\ Exists(Sealed(i))' => Exists(Sealed(i))
    BY <2>2, <2>3, <2>7, DirNames DEF Exists
  <2>9. NothingIsBuried' /\ LegacyOf' = {} /\ MovingOf' \subseteq MovingOf \ {Arg}
    BY <2>8, <1>1 DEF NothingIsBuried, LegacyOf, MovingOf
  <2>10. ProgramFits'
    <3>1. Exists(Live)'
      BY <2>6 DEF DirsOK
    <3> QED  BY <3>1, <2>1, <2>2, <2>9, <1>1, PopFits DEF Pop
  <2> QED  BY <2>6, <2>9, <2>10, <1>1 DEF Core
<1>5. CASE Migrate
  <2>1. /\ At("migrate") /\ Pop
        /\ IF ~Exists(Legacy(Arg)) THEN UNCHANGED fs
           ELSE IF Exists(Sealed(Arg)) THEN fs' = [fs EXCEPT ![Legacy(Arg)] = NoDir]
           ELSE Rename(Legacy(Arg), Sealed(Arg))
    BY <1>5 DEF Migrate
  <2>2. todo # <<>> /\ Head(todo) = <<"migrate", Arg>> /\ Arg \in Systems
    BY <1>1, <2>1, Argument DEF SystemSteps
  <2>3. /\ Legacy(Arg) \in Dirs \ {Live} /\ Sealed(Arg) \in Dirs \ {Live}
        /\ Legacy(Arg) # Sealed(Arg) /\ Sealed(Arg) \notin OldDirs /\ Legacy(Arg) \in OldDirs
    BY <2>2, DirNames DEF OldDirs
  <2>4. SUFFICES /\ DirsOK' /\ DataOK' /\ NothingIsBuried'
                 /\ LegacyOf' \subseteq LegacyOf \ {Arg} /\ MovingOf' \subseteq MovingOf
    <3>1. ASSUME DirsOK', LegacyOf' \subseteq LegacyOf \ {Arg}, MovingOf' \subseteq MovingOf
          PROVE  ProgramFits'
      <4>1. Exists(Live)'
        BY <3>1 DEF DirsOK
      <4> QED  BY <4>1, <3>1, <2>1, <2>2, <1>1, PopFits DEF Pop
    <3> QED  BY <3>1, <1>1 DEF Core
  <2>5. CASE ~Exists(Legacy(Arg))
    <3>1. fs' = fs
      BY <2>1, <2>5
    <3>2. Arg \notin LegacyOf
      BY <2>5 DEF LegacyOf
    <3> QED  BY <3>1, <3>2, <1>1, SameFs
  <2>6. CASE Exists(Legacy(Arg)) /\ Exists(Sealed(Arg))
    <3>1. fs' = [fs EXCEPT ![Legacy(Arg)] = NoDir]
      BY <2>1, <2>6
    <3>2. DirsOK' /\ DataOK'
      BY <3>1, <2>3, <2>6, <1>1, DiscardKeeps
    <3>3. fs'[Legacy(Arg)] = NoDir /\ \A d \in Dirs : d # Legacy(Arg) => fs'[d] = fs[d]
      BY <3>1, <2>3, <1>1 DEF DirsOK
    <3>4. \A i \in Systems : /\ Exists(Sealed(i))' <=> Exists(Sealed(i))
                             /\ Exists(Tmp(i))' <=> Exists(Tmp(i))
                             /\ Exists(Legacy(i))' => Exists(Legacy(i)) /\ i # Arg
      BY <2>2, <3>3, DirNames DEF Exists
    <3>5. NothingIsBuried'
      BY <3>4, <1>1 DEF NothingIsBuried
    <3>6. LegacyOf' \subseteq LegacyOf \ {Arg} /\ MovingOf' \subseteq MovingOf
      BY <3>4 DEF LegacyOf, MovingOf
    <3> QED  BY <3>2, <3>5, <3>6
  <2>7. CASE Exists(Legacy(Arg)) /\ ~Exists(Sealed(Arg))
    <3>1. fs' = [fs EXCEPT ![Legacy(Arg)] = NoDir, ![Sealed(Arg)] = fs[Legacy(Arg)]]
      BY <2>1, <2>7 DEF Rename
    <3>2. DirsOK' /\ DataOK'
      BY <3>1, <2>3, <2>7, <1>1, RenameKeeps
    <3>3. /\ fs'[Legacy(Arg)] = NoDir
          /\ \A d \in Dirs : d \notin {Legacy(Arg), Sealed(Arg)} => fs'[d] = fs[d]
      BY <3>1, <2>3, <1>1 DEF DirsOK
    <3>4. \A i \in Systems : ~Exists(Tmp(i))
      BY <2>2, <2>7, <1>1 DEF NothingIsBuried
    <3>5. \A i \in Systems : /\ ~Exists(Tmp(i))'
                             /\ Exists(Legacy(i))' => Exists(Legacy(i)) /\ i # Arg
      BY <2>2, <3>3, <3>4, DirNames DEF Exists
    <3>6. NothingIsBuried'
      BY <3>5 DEF NothingIsBuried
    <3>7. LegacyOf' \subseteq LegacyOf \ {Arg} /\ MovingOf' \subseteq MovingOf
      BY <3>5 DEF LegacyOf, MovingOf
    <3> QED  BY <3>2, <3>6, <3>7
  <2> QED  BY <2>5, <2>6, <2>7
<1> QED  BY <1>2, <1>3, <1>4, <1>5

\* dualdata_switchtodata.
LEMMA SwitchStepsPreserve ==
    ASSUME Core, UNCHANGED <<created, swept>>,
           Pack \/ Unpack \/ DrainMove \/ DrainEnd \/ CreateLayoutVersion
    PROVE  Core'
<1>1. /\ DirsOK /\ DataOK /\ NothingIsBuried /\ ProgramFits /\ created \subseteq UserEntries
      /\ (created \subseteq UserEntries)'
  BY DEF Core
<1>2. ASSUME NEW op, At(op), op \notin {"finish", "migrate"}, Pop, DirsOK', DataOK', NothingIsBuried',
             LegacyOf' \subseteq LegacyOf,
             MovingOf' \subseteq MovingOf \/ op \in {"pack", "unpack"}
      PROVE  Core'
  <2>1. todo # <<>> /\ Head(todo) = <<op, Arg>> /\ Exists(Live)'
    BY <1>1, <1>2, Argument DEF DirsOK
  <2>2. ProgramFits'
    BY <2>1, <1>1, <1>2, PopFits DEF Pop
  <2> QED  BY <2>2, <1>1, <1>2 DEF Core
<1>3. CASE Pack
  <2>1. /\ At("pack")
        /\ IF Exists(Sealed(Arg)) THEN Pop /\ UNCHANGED fs
           ELSE /\ fs' = [fs EXCEPT ![Tmp(Arg)] = IF Exists(Tmp(Arg)) THEN @ ELSE {}]
                /\ todo' = << <<"finish", Arg>> >> \o Tail(todo)
    BY <1>3 DEF Pack
  <2>2. PICK a \in Systems : a = Arg /\ todo # <<>> /\ Head(todo) = <<"pack", a>> /\ LegacyOf = {}
    BY <1>1, <2>1, Argument, HeadInOrder DEF SystemSteps
  <2>3. CASE Exists(Sealed(a))
    <3>1. Pop /\ fs' = fs
      BY <2>1, <2>2, <2>3
    <3> QED  BY <3>1, <2>1, <1>1, <1>2, SameFs
  <2>4. CASE ~Exists(Sealed(a))
    <3>1. /\ fs' = [fs EXCEPT ![Tmp(a)] = IF Exists(Tmp(a)) THEN @ ELSE {}]
          /\ todo' = << <<"finish", a>> >> \o Tail(todo)
      BY <2>1, <2>2, <2>4
    <3>2. Tmp(a) \in Dirs /\ Tmp(a) # Live
      BY DirNames
    <3>3. /\ fs'[Tmp(a)] = (IF Exists(Tmp(a)) THEN fs[Tmp(a)] ELSE {})
          /\ \A d \in Dirs : d # Tmp(a) => fs'[d] = fs[d]
          /\ fs' \in [Dirs -> Contents]
      BY <3>1, <3>2, <1>1 DEF DirsOK, Contents
    <3>4. \A d \in Dirs : \/ fs'[d] = fs[d]
                          \/ fs'[d] \in {NoDir, {}} /\ fs[d] \in {NoDir, {}}
      BY <3>3 DEF Exists
    <3>5. DirsOK' /\ DataOK'
      BY <3>2, <3>3, <3>4, <1>1, DirNames, EmptyKeeps
    <3>6. \A i \in Systems : /\ Exists(Sealed(i))' <=> Exists(Sealed(i))
                             /\ Exists(Legacy(i))' <=> Exists(Legacy(i))
                             /\ Exists(Tmp(i))' => Exists(Tmp(i)) \/ i = a
      BY <3>3, DirNames DEF Exists
    <3>7. NothingIsBuried' /\ LegacyOf' = {}
      BY <3>6, <2>2, <2>4, <1>1 DEF NothingIsBuried, LegacyOf
    <3>8. /\ Tail(todo) \in Seq(Steps)
          /\ InOrder(Tail(todo), LegacyOf', MovingOf')
          /\ \A k \in 1 .. Len(Tail(todo)) : Tail(todo)[k][1] = "lv" => Tail(todo)[k][2] = Live
      <4>1. Popped(todo, LegacyOf, MovingOf, LegacyOf', MovingOf')
        BY <3>7, <2>2, <1>1 DEF Popped, ProgramFits
      <4> QED  BY <4>1, PopInOrder
    <3>9. <<"finish", a>> \in Steps /\ <<"finish", a>>[1] \in {"finish", "lv"}
      BY DEF Steps
    <3>10. /\ todo' \in Seq(Steps) /\ InOrder(todo', LegacyOf', MovingOf')
           /\ Head(todo') = <<"finish", a>>
      BY <3>1, <3>8, <3>9, PushInOrder
    <3>11. ProgramFits'
      <4>1. InOrder(todo, LegacyOf, MovingOf)'
        BY <3>10 DEF InOrder
      <4>2. ~At("lv")'
        BY <3>10 DEF At
      <4> QED  BY <4>1, <4>2, <3>10 DEF ProgramFits
    <3> QED  BY <3>5, <3>7, <3>11, <1>1 DEF Core
  <2> QED  BY <2>3, <2>4
<1>4. CASE Unpack
  <2>1. /\ At("unpack") /\ Pop
        /\ IF Exists(Sealed(Arg)) /\ ~Exists(Tmp(Arg))
           THEN Rename(Sealed(Arg), Tmp(Arg)) ELSE UNCHANGED fs
    BY <1>4 DEF Unpack
  <2>2. PICK a \in Systems : a = Arg /\ LegacyOf = {}
    BY <1>1, <2>1, Argument, HeadInOrder DEF SystemSteps
  <2>3. CASE Exists(Sealed(a)) /\ ~Exists(Tmp(a))
    <3>1. fs' = [fs EXCEPT ![Sealed(a)] = NoDir, ![Tmp(a)] = fs[Sealed(a)]]
      BY <2>1, <2>2, <2>3 DEF Rename
    <3>2. /\ Tmp(a) \in Dirs \ {Live} /\ Sealed(a) \in Dirs \ {Live}
          /\ Tmp(a) # Sealed(a) /\ Tmp(a) \notin OldDirs
      BY DirNames DEF OldDirs
    <3>3. DirsOK' /\ DataOK'
      BY <3>1, <3>2, <2>3, <1>1, RenameKeeps
    <3>4. /\ fs'[Sealed(a)] = NoDir
          /\ \A d \in Dirs : d \notin {Tmp(a), Sealed(a)} => fs'[d] = fs[d]
      BY <3>1, <3>2, <1>1 DEF DirsOK
    <3>5. \A i \in Systems : /\ Exists(Legacy(i))' => Exists(Legacy(i))
                             /\ Exists(Tmp(i))' => Exists(Tmp(i)) \/ i = a
                             /\ Exists(Sealed(i))' => Exists(Sealed(i)) /\ i # a
      BY <3>4, DirNames DEF Exists
    <3>6. NothingIsBuried' /\ LegacyOf' \subseteq LegacyOf
      BY <3>5, <2>2, <1>1 DEF NothingIsBuried, LegacyOf
    <3> QED  BY <3>3, <3>6, <2>1, <1>2
  <2>4. CASE ~(Exists(Sealed(a)) /\ ~Exists(Tmp(a)))
    <3>1. fs' = fs
      BY <2>1, <2>2, <2>4
    <3> QED  BY <3>1, <2>1, <1>1, <1>2, SameFs
  <2> QED  BY <2>3, <2>4
<1>5. CASE DrainMove
  <2>1. At("drain") /\ Exists(Tmp(Arg)) /\ Move(Tmp(Arg), Live) /\ todo' = todo
    BY <1>5 DEF DrainMove
  <2>2. Head(todo) = <<"drain", Arg>> /\ Arg \in Systems
    BY <1>1, <2>1, Argument DEF SystemSteps
  <2>3. /\ Live \in Dirs /\ Tmp(Arg) \in Dirs /\ Live # Tmp(Arg) /\ Live \notin OldDirs
        /\ Exists(Live)
    BY <2>2, <1>1, DirNames DEF OldDirs, DirsOK
  <2>4. PICK e \in fs[Tmp(Arg)] :
            fs' = [fs EXCEPT ![Tmp(Arg)] = @ \ {e}, ![Live] = @ \cup {e}]
    BY <2>1 DEF Move, Movable
  <2>5. DirsOK' /\ DataOK' /\ \A d \in Dirs : Exists(d)' <=> Exists(d)
    BY <2>1, <2>3, <2>4, <1>1, MoveKeeps
  <2>6. NothingIsBuried' /\ LegacyOf' = LegacyOf /\ MovingOf' = MovingOf
    BY <2>5, <1>1, SameDirs
  <2>7. ProgramFits'
    <3>1. InOrder(todo, LegacyOf, MovingOf)'
      BY <2>1, <2>6, <1>1 DEF ProgramFits, InOrder
    <3>2. ~At("lv")'
      BY <2>1, <2>2 DEF At
    <3> QED  BY <3>1, <3>2, <2>1, <1>1 DEF ProgramFits
  <2> QED  BY <2>5, <2>6, <2>7, <1>1 DEF Core
<1>6. CASE DrainEnd
  <2>1. /\ At("drain") /\ Pop
        /\ IF Exists(Tmp(Arg)) THEN Rmdir(Tmp(Arg)) ELSE UNCHANGED fs
    BY <1>6 DEF DrainEnd, RmdirDrained
  <2>2. PICK a \in Systems : a = Arg
    BY <1>1, <2>1, Argument DEF SystemSteps
  <2>3. CASE fs[Tmp(a)] = {} /\ Exists(Tmp(a))
    <3>1. fs' = [fs EXCEPT ![Tmp(a)] = NoDir]
      BY <2>1, <2>2, <2>3 DEF Rmdir
    <3>2. Tmp(a) \in Dirs /\ Tmp(a) # Live
      BY DirNames
    <3>3. /\ fs'[Tmp(a)] = NoDir
          /\ \A d \in Dirs : d # Tmp(a) => fs'[d] = fs[d]
          /\ fs' \in [Dirs -> Contents]
      BY <3>1, <3>2, <1>1 DEF DirsOK, Contents
    <3>4. DirsOK' /\ DataOK'
      BY <2>3, <3>2, <3>3, <1>1, DirNames, EmptyKeeps
    <3>5. \A i \in Systems : /\ Exists(Sealed(i))' <=> Exists(Sealed(i))
                             /\ Exists(Legacy(i))' <=> Exists(Legacy(i))
                             /\ Exists(Tmp(i))' => Exists(Tmp(i))
      BY <3>3, DirNames DEF Exists
    <3>6. NothingIsBuried' /\ LegacyOf' \subseteq LegacyOf /\ MovingOf' \subseteq MovingOf
      BY <3>5, <1>1 DEF NothingIsBuried, LegacyOf, MovingOf
    <3> QED  BY <3>4, <3>6, <2>1, <1>2
  <2>4. CASE ~(fs[Tmp(a)] = {} /\ Exists(Tmp(a)))
    <3>1. fs' = fs
      BY <2>1, <2>2, <2>4 DEF Rmdir
    <3> QED  BY <3>1, <2>1, <1>1, <1>2, SameFs
  <2> QED  BY <2>3, <2>4
<1>7. CASE CreateLayoutVersion
  <2>1. At("lv") /\ Pop /\ fs' = [fs EXCEPT ![Arg] = @ \cup {LayoutVersion}]
    BY <1>7 DEF CreateLayoutVersion
  <2>2. PICK p \in {Live, Sealed(1), Sealed(2)} : p = Arg /\ Exists(p)
    BY <1>1, <2>1, Argument
  <2>3. p \in Dirs /\ p \notin OldDirs
    BY <2>2, DirNames DEF OldDirs, Systems
  <2>4. fs' = [fs EXCEPT ![p] = @ \cup {} \cup {LayoutVersion}]
    BY <2>1, <2>2
  <2>5. DirsOK' /\ DataOK' /\ \A d \in Dirs : Exists(d)' <=> Exists(d)
    <3>1. {} \in SUBSET (UserEntries \ created) /\ created' = created \cup {}
      OBVIOUS
    <3> QED  BY <3>1, <2>2, <2>3, <2>4, <1>1, AddKeeps
  <2>6. NothingIsBuried' /\ LegacyOf' = LegacyOf /\ MovingOf' = MovingOf
    BY <2>5, <1>1, SameDirs
  <2> QED  BY <2>1, <2>5, <2>6, <1>2
<1> QED  BY <1>3, <1>4, <1>5, <1>6, <1>7

\* dualdata_enable and dualdata_disable.
LEMMA EnableStepsPreserve ==
    ASSUME Core, UNCHANGED <<created, swept>>, Undisable \/ Disable \/ CreateSealed
    PROVE  Core'
<1>1. /\ DirsOK /\ DataOK /\ NothingIsBuried /\ ProgramFits /\ created \subseteq UserEntries
      /\ (created \subseteq UserEntries)'
  BY DEF Core
<1>2. ASSUME NEW op, At(op), op \notin {"finish", "migrate"}, Pop, DirsOK', DataOK', NothingIsBuried',
             LegacyOf' \subseteq LegacyOf, MovingOf' \subseteq MovingOf
      PROVE  Core'
  <2>1. todo # <<>> /\ Head(todo) = <<op, Arg>> /\ Exists(Live)'
    BY <1>1, <1>2, Argument DEF DirsOK
  <2>2. ProgramFits'
    BY <2>1, <1>1, <1>2, PopFits DEF Pop
  <2> QED  BY <2>2, <1>1, <1>2 DEF Core
<1>3. CASE Undisable
  <2>1. /\ At("undisable") /\ Pop
        /\ IF Exists(Off(Arg)) /\ ~Exists(Sealed(Arg))
           THEN Rename(Off(Arg), Sealed(Arg)) ELSE UNCHANGED fs
    BY <1>3 DEF Undisable
  <2>2. PICK a \in Systems : a = Arg /\ MovingOf = {}
    BY <1>1, <2>1, Argument, HeadInOrder DEF SystemSteps
  <2>3. CASE Exists(Off(a)) /\ ~Exists(Sealed(a))
    <3>1. fs' = [fs EXCEPT ![Off(a)] = NoDir, ![Sealed(a)] = fs[Off(a)]]
      BY <2>1, <2>2, <2>3 DEF Rename
    <3>2. /\ Off(a) \in Dirs \ {Live} /\ Sealed(a) \in Dirs \ {Live}
          /\ Off(a) # Sealed(a) /\ Sealed(a) \notin OldDirs
      BY DirNames DEF OldDirs
    <3>3. DirsOK' /\ DataOK'
      BY <3>1, <3>2, <2>3, <1>1, RenameKeeps
    <3>4. \A d \in Dirs : d \notin {Off(a), Sealed(a)} => fs'[d] = fs[d]
      BY <3>1, <3>2, <1>1 DEF DirsOK
    <3>5. \A i \in Systems : /\ Exists(Legacy(i))' <=> Exists(Legacy(i))
                             /\ ~Exists(Tmp(i))'
      BY <3>4, <2>2, DirNames DEF Exists, MovingOf
    <3>6. NothingIsBuried' /\ LegacyOf' \subseteq LegacyOf /\ MovingOf' \subseteq MovingOf
      BY <3>5, <1>1 DEF NothingIsBuried, LegacyOf, MovingOf
    <3> QED  BY <3>3, <3>6, <2>1, <1>2
  <2>4. CASE ~(Exists(Off(a)) /\ ~Exists(Sealed(a)))
    <3>1. fs' = fs
      BY <2>1, <2>2, <2>4
    <3> QED  BY <3>1, <2>1, <1>1, <1>2, SameFs
  <2> QED  BY <2>3, <2>4
<1>4. CASE Disable
  <2>1. /\ At("disable") /\ Pop
        /\ IF Exists(Sealed(Arg)) /\ ~Exists(Off(Arg))
           THEN Rename(Sealed(Arg), Off(Arg)) ELSE UNCHANGED fs
    BY <1>4 DEF Disable
  <2>2. PICK a \in Systems : a = Arg
    BY <1>1, <2>1, Argument DEF SystemSteps
  <2>3. CASE Exists(Sealed(a)) /\ ~Exists(Off(a))
    <3>1. fs' = [fs EXCEPT ![Sealed(a)] = NoDir, ![Off(a)] = fs[Sealed(a)]]
      BY <2>1, <2>2, <2>3 DEF Rename
    <3>2. /\ Off(a) \in Dirs \ {Live} /\ Sealed(a) \in Dirs \ {Live}
          /\ Off(a) # Sealed(a) /\ Off(a) \notin OldDirs
      BY DirNames DEF OldDirs
    <3>3. DirsOK' /\ DataOK'
      BY <3>1, <3>2, <2>3, <1>1, RenameKeeps
    <3>4. /\ fs'[Sealed(a)] = NoDir
          /\ \A d \in Dirs : d \notin {Off(a), Sealed(a)} => fs'[d] = fs[d]
      BY <3>1, <3>2, <1>1 DEF DirsOK
    <3>5. \A i \in Systems : /\ Exists(Legacy(i))' <=> Exists(Legacy(i))
                             /\ Exists(Tmp(i))' <=> Exists(Tmp(i))
                             /\ Exists(Sealed(i))' => Exists(Sealed(i))
      BY <3>4, DirNames DEF Exists
    <3>6. NothingIsBuried' /\ LegacyOf' \subseteq LegacyOf /\ MovingOf' \subseteq MovingOf
      BY <3>5, <1>1 DEF NothingIsBuried, LegacyOf, MovingOf
    <3> QED  BY <3>3, <3>6, <2>1, <1>2
  <2>4. CASE ~(Exists(Sealed(a)) /\ ~Exists(Off(a)))
    <3>1. fs' = fs
      BY <2>1, <2>2, <2>4
    <3> QED  BY <3>1, <2>1, <1>1, <1>2, SameFs
  <2> QED  BY <2>3, <2>4
<1>5. CASE CreateSealed
  <2>1. /\ At("create")
        /\ IF enabled THEN Pop /\ UNCHANGED fs
           ELSE /\ fs' = [fs EXCEPT ![Sealed(Other(Arg))] = IF @ = NoDir THEN {} ELSE @]
                /\ todo' = << <<"lv", Sealed(Other(Arg))>> >> \o Tail(todo)
    BY <1>5 DEF CreateSealed
  <2>2. PICK a \in Systems : a = Other(Arg) /\ todo # <<>> /\ Head(todo)[1] = "create" /\ MovingOf = {}
    BY <1>1, <2>1, Argument, HeadInOrder DEF SystemSteps, Systems, Other
  <2>3. CASE enabled
    <3>1. Pop /\ fs' = fs
      BY <2>1, <2>3
    <3> QED  BY <3>1, <2>1, <1>1, <1>2, SameFs
  <2>4. CASE ~enabled
    <3>1. /\ fs' = [fs EXCEPT ![Sealed(a)] = IF @ = NoDir THEN {} ELSE @]
          /\ todo' = << <<"lv", Sealed(a)>> >> \o Tail(todo)
      BY <2>1, <2>2, <2>4
    <3>2. Sealed(a) \in Dirs /\ Sealed(a) # Live
      BY DirNames
    <3>3. /\ fs'[Sealed(a)] = (IF fs[Sealed(a)] = NoDir THEN {} ELSE fs[Sealed(a)])
          /\ \A d \in Dirs : d # Sealed(a) => fs'[d] = fs[d]
          /\ fs' \in [Dirs -> Contents]
      BY <3>1, <3>2, <1>1 DEF DirsOK, Contents
    <3>4. \A d \in Dirs : \/ fs'[d] = fs[d]
                          \/ fs'[d] \in {NoDir, {}} /\ fs[d] \in {NoDir, {}}
      BY <3>3
    <3>5. DirsOK' /\ DataOK'
      BY <3>2, <3>3, <3>4, <1>1, DirNames, EmptyKeeps
    <3>6. /\ \A i \in Systems : /\ Exists(Legacy(i))' <=> Exists(Legacy(i))
                                /\ ~Exists(Tmp(i))'
          /\ Exists(Sealed(a))'
      BY <3>3, <2>2, DirNames, Distinct DEF Exists, MovingOf
    <3>7. NothingIsBuried' /\ LegacyOf' = LegacyOf /\ MovingOf' = {}
      BY <3>6, <1>1 DEF NothingIsBuried, LegacyOf, MovingOf
    <3>8. /\ Tail(todo) \in Seq(Steps)
          /\ InOrder(Tail(todo), LegacyOf', MovingOf')
          /\ \A k \in 1 .. Len(Tail(todo)) : Tail(todo)[k][1] = "lv" => Tail(todo)[k][2] = Live
      <4>1. Popped(todo, LegacyOf, MovingOf, LegacyOf', MovingOf')
        BY <3>7, <2>2, <1>1 DEF Popped, ProgramFits
      <4> QED  BY <4>1, PopInOrder
    <3>9. <<"lv", Sealed(a)>> \in Steps /\ <<"lv", Sealed(a)>>[1] \in {"finish", "lv"}
      BY DEF Steps, Systems
    <3>10. /\ todo' \in Seq(Steps) /\ InOrder(todo', LegacyOf', MovingOf')
           /\ Head(todo') = <<"lv", Sealed(a)>>
      BY <3>1, <3>8, <3>9, PushInOrder
    <3>11. ProgramFits'
      <4>1. InOrder(todo, LegacyOf, MovingOf)'
        BY <3>10 DEF InOrder
      <4>2. Exists(Arg)'
        BY <3>6, <3>10 DEF Arg, Exists
      <4> QED  BY <4>1, <4>2, <3>10 DEF ProgramFits
    <3> QED  BY <3>5, <3>7, <3>11, <1>1 DEF Core
  <2> QED  BY <2>3, <2>4
<1> QED  BY <1>3, <1>4, <1>5

(***************************************************************************)
(* Users, power, the systems that boot, and the layout upgrade.            *)
(***************************************************************************)

\* A command starts, or the running one ends early.
LEMMA StartPreserves ==
    ASSUME Core, UNCHANGED <<fs, created, swept>>, todo' = <<>> \/ Startable(todo')
    PROVE  Core'
<1>1. /\ DirsOK' /\ DataOK' /\ NothingIsBuried'
      /\ LegacyOf' = LegacyOf /\ MovingOf' = MovingOf
      /\ (created \subseteq UserEntries)'
  BY SameFs DEF Core
<1>2. todo' \in Seq(Steps) /\ InOrder(todo', LegacyOf, MovingOf) /\ ~At("lv")'
  <2>1. CASE todo' = <<>>
    BY <2>1 DEF At, InOrder
  <2>2. CASE Startable(todo')
    <3>1. InOrder(todo', LegacyOf, MovingOf)
      BY <2>2 DEF Startable, InOrder, LegacyOf, MovingOf
    <3>2. todo' # <<>> => Head(todo') = todo'[1] /\ 1 \in 1 .. Len(todo')
      BY <2>2 DEF Startable
    <3> QED  BY <2>2, <3>1, <3>2 DEF At, Startable
  <2> QED  BY <2>1, <2>2
<1>3. InOrder(todo, LegacyOf, MovingOf)'
  BY <1>1, <1>2 DEF InOrder
<1> QED  BY <1>1, <1>2, <1>3 DEF Core, ProgramFits

\* New entries in /data leave the program and the other directories alone.
LEMMA WritesPreserve ==
    ASSUME Core, swept' = swept, todo' = todo,
           NEW new \in SUBSET (UserEntries \ created), created' = created \cup new,
           fs' = [fs EXCEPT ![Live] = @ \cup new \cup {LayoutVersion}],
           power' = power
    PROVE  Core'
<1>1. Live \in Dirs /\ Live \notin OldDirs /\ Exists(Live)
  BY DirNames DEF Core, DirsOK, OldDirs
<1>2. DirsOK' /\ DataOK' /\ \A d \in Dirs : Exists(d)' <=> Exists(d)
  BY <1>1, AddKeeps DEF Core
<1>3. NothingIsBuried' /\ LegacyOf' = LegacyOf /\ MovingOf' = MovingOf
  BY <1>2, SameDirs DEF Core
<1>4. ProgramFits'
  <2>1. ProgramFits
    BY DEF Core
  <2>2. InOrder(todo, LegacyOf, MovingOf)'
    BY <1>3, <2>1 DEF InOrder, ProgramFits
  <2>3. At("lv")' => At("lv") /\ Arg' = Arg
    BY DEF At, Arg
  <2>4. At("lv") => Arg \in Dirs /\ Exists(Arg)
    BY <2>1, Argument, DirNames DEF Systems
  <2>5. At("lv")' => Exists(Arg)'
    BY <2>3, <2>4, <1>2 DEF Exists
  <2> QED  BY <2>1, <2>2, <2>5 DEF ProgramFits
<1> QED  BY <1>2, <1>3, <1>4 DEF Core

LEMMA ScriptPreserves ==
    ASSUME Core, Script, swept' = swept
    PROVE  Core'
<1>1. created' = created
  BY DEF Script, WriteMark, Mount, Clean, FinishMove, FinishRename, FinishNothing, Migrate, Flag,
         SetProp, Switch, Pack, Unpack, DrainMove, DrainEnd, CreateLayoutVersion, Undisable,
         Disable, CreateSealed, Done
<1>2. CASE WriteMark \/ Mount \/ FinishNothing \/ Flag \/ SetProp \/ Switch \/ Done
  <2>1. fs' = fs
    BY <1>2 DEF WriteMark, Mount, FinishNothing, Flag, SetProp, Switch, Done
  <2> QED  BY <2>1, <1>1, <1>2, QuietStepsPreserve
<1>3. CASE Clean \/ FinishMove \/ FinishRename \/ Migrate
  BY <1>1, <1>3, OpenStepsPreserve
<1>4. CASE Pack \/ Unpack \/ DrainMove \/ DrainEnd \/ CreateLayoutVersion
  BY <1>1, <1>4, SwitchStepsPreserve
<1>5. CASE Undisable \/ Disable \/ CreateSealed
  BY <1>1, <1>5, EnableStepsPreserve
<1> QED  BY <1>2, <1>3, <1>4, <1>5 DEF Script

LEMMA RunningPreserves ==
    ASSUME Core, OthersOK, Running, swept' = swept
    PROVE  Core'
<1>1. CASE Script
  BY <1>1, ScriptPreserves
<1>2. CASE WriteMarkFails \/ Dies
  <2>1. todo' = <<>> /\ UNCHANGED <<fs, created>>
    BY <1>2 DEF WriteMarkFails, Dies
  <2> QED  BY <2>1, StartPreserves
<1>3. CASE UserSave \/ UserEnable \/ UserDisable \/ UserGet \/ UserSet
  <2>1. UNCHANGED <<fs, created>> /\ which \in Systems
    BY <1>3 DEF UserSave, UserEnable, UserDisable, UserGet, UserSet, Start, OthersOK
  <2>2. \E w \in Systems : todo' \in {SaveProgram(w), EnableProgram(w), DisableProgram, Open}
    BY <1>3, <2>1 DEF UserSave, UserEnable, UserDisable, UserGet, UserSet, Start
  <2>3. Startable(todo')
    BY <2>2, ProgramsStartable
  <2> QED  BY <2>1, <2>3, StartPreserves
<1>4. CASE BootRecovery
  <2>1. todo' = LoadProgram(mark) /\ UNCHANGED <<fs, created>> /\ mark \in Systems
    BY <1>4 DEF BootRecovery, OthersOK
  <2>2. Startable(todo')
    BY <2>1, ProgramsStartable
  <2> QED  BY <2>1, <2>2, StartPreserves
<1>5. CASE AndroidWrites
  <2>1. PICK b \in 1 .. MaxBatch :
            /\ \A e \in created : e.batch < b
            /\ LET missing == {e \in Batch(b) : \A f \in fs[Live] : f.name # e.name}
               IN  /\ fs' = [fs EXCEPT ![Live] = @ \cup missing \cup {LayoutVersion}]
                   /\ created' = created \cup missing
    BY <1>5 DEF AndroidWrites
  <2> DEFINE missing == {e \in Batch(b) : \A f \in fs[Live] : f.name # e.name}
  <2>2. /\ fs' = [fs EXCEPT ![Live] = @ \cup missing \cup {LayoutVersion}]
        /\ created' = created \cup missing
    BY <2>1
  <2>3. missing \in SUBSET (UserEntries \ created)
    <3>1. Batch(b) \subseteq UserEntries
      <4>1. MaxBatch \in Nat
        BY DualAssumption
      <4>2. b \in 0 .. MaxBatch
        BY <4>1
      <4> QED  BY <4>2 DEF UserEntries
    <3>2. \A e \in Batch(b) : e.batch = b
      BY DEF Batch
    <3>3. \A e \in created : e.batch # b
      BY <2>1
    <3> QED  BY <3>1, <3>2, <3>3
  <2>4. todo' = todo /\ power' = power
    BY <1>5 DEF AndroidWrites
  <2> HIDE DEF missing
  <2> QED  BY <2>2, <2>3, <2>4, WritesPreserve
<1> QED  BY <1>1, <1>2, <1>3, <1>4, <1>5 DEF Running

LEMMA UpgradePreserves ==
    ASSUME Core, Upgrade, todo = <<>>
    PROVE  Core'
<1>1. todo' = <<>> /\ created' = created /\ power' = power
  BY DEF Upgrade, VersionKnown, MakeMedia0, MoveFile, SweepDirectory, MoveEnds, WriteVersion, UpgradeStep
<1>2. CASE VersionKnown \/ MakeMedia0 \/ MoveFile \/ MoveEnds
  <2>1. UNCHANGED <<fs, swept>>
    BY <1>2 DEF VersionKnown, MakeMedia0, MoveFile, MoveEnds
  <2> QED  BY <2>1, <1>1, StartPreserves
<1>3. CASE SweepDirectory
  <2>1. PICK p \in MediaDirs : fs' = [fs EXCEPT ![p] = NoDir] /\ swept' = swept \cup fs[p]
    BY <1>3 DEF SweepDirectory
  <2>2. p \in Dirs \ {Live} /\ Exists(p)
    BY <2>1 DEF MediaDirs, Live
  <2>3. DirsOK' /\ DataOK'
    BY <1>1, <2>1, <2>2, DiscardKeeps DEF Core
  <2>4. \A d \in Dirs : Exists(d)' => Exists(d)
    BY <2>1, <2>2 DEF Exists, Core, DirsOK
  <2>5. \A i \in Systems : /\ Exists(Sealed(i))' => Exists(Sealed(i))
                           /\ Exists(Tmp(i))' => Exists(Tmp(i))
                           /\ Exists(Legacy(i))' => Exists(Legacy(i))
    BY <2>4, DirNames
  <2>6. NothingIsBuried'
    BY <2>5 DEF Core, NothingIsBuried
  <2>7. ProgramFits'
    BY <1>1 DEF ProgramFits, InOrder, At
  <2> QED  BY <2>3, <2>6, <2>7, <1>1 DEF Core
<1>4. CASE WriteVersion
  <2>1. fs' = [fs EXCEPT ![Live] = @ \cup {} \cup {LayoutVersion}] /\ swept' = swept
    BY <1>4 DEF WriteVersion
  <2>2. {} \in SUBSET (UserEntries \ created) /\ created' = created \cup {} /\ todo' = todo
    BY <1>1
  <2> QED  BY <2>1, <2>2, <1>1, WritesPreserve
<1> QED  BY <1>2, <1>3, <1>4 DEF Upgrade

(***************************************************************************)
(* The rest of the inductive invariant.                                    *)
(***************************************************************************)

LEMMA CoreParts ==
    IInv <=> Core /\ FlagsOK /\ OthersOK /\ NothingRunsBeside /\ FilesMoved
BY TypeParts DEF IInv, Core, OthersOK

LEMMA CorePartsNext ==
    IInv' <=> Core' /\ FlagsOK' /\ OthersOK' /\ NothingRunsBeside' /\ FilesMoved'
BY TypePartsNext DEF IInv, Core, OthersOK

\* What the steps of a command leave alone.
LEMMA ScriptFrame ==
    ASSUME Core, OthersOK, Script
    PROVE  /\ UNCHANGED <<created, power, which>> /\ mark' \in Systems
           /\ todo # <<>> /\ power # "off"
           /\ harm' \in {harm, "none"}
<1>1. UNCHANGED <<created, power, which>> /\ todo # <<>> /\ power # "off" /\ harm' \in {harm, "none"}
  BY DEF Script, WriteMark, Mount, Clean, FinishMove, FinishRename, FinishNothing, Migrate, Flag,
         SetProp, Switch, Pack, Unpack, DrainMove, DrainEnd, CreateLayoutVersion, Undisable,
         Disable, CreateSealed, Done, At
<1>2. CASE WriteMark
  BY <1>1, <1>2, Argument DEF WriteMark, Core, SystemSteps
<1>3. CASE ~WriteMark
  <2>1. mark' = mark
    BY <1>3 DEF Script, Mount, Clean, FinishMove, FinishRename, FinishNothing, Migrate, Flag,
         SetProp, Switch, Pack, Unpack, DrainMove, DrainEnd, CreateLayoutVersion, Undisable,
         Disable, CreateSealed, Done
  <2> QED  BY <2>1, <1>1 DEF OthersOK
<1> QED  BY <1>2, <1>3

LEMMA ScriptFlags ==
    ASSUME FlagsOK, Script
    PROVE  FlagsOK'
<1>1. CASE Flag
  <2>1. enabled' \in BOOLEAN
    BY <1>1, Zenon DEF Flag
  <2>2. dualprop' \in BOOLEAN
    BY <1>1, Zenon DEF Flag, FlagsOK
  <2> QED  BY <2>1, <2>2, Zenon DEF FlagsOK
<1>2. CASE SetProp
  BY <1>2, Zenon DEF SetProp, FlagsOK
<1>3. CASE Script /\ ~Flag /\ ~SetProp
  <2>1. UNCHANGED <<enabled, dualprop>>
    BY <1>3 DEF Script, WriteMark, Mount, Clean, FinishMove, FinishRename, FinishNothing, Migrate,
         Switch, Pack, Unpack, DrainMove, DrainEnd, CreateLayoutVersion, Undisable,
         Disable, CreateSealed, Done
  <2> QED  BY <2>1, Zenon DEF FlagsOK
<1> QED  BY <1>1, <1>2, <1>3

LEMMA InitEstablishes == UpgradeInit => IInv
<1> SUFFICES ASSUME UpgradeInit PROVE IInv
  OBVIOUS
<1>1. Init /\ mark \in Systems /\ todo = <<>> /\ power = "off" /\ which = mark /\ harm = "none"
      /\ upg = "idle" /\ (media0 # NoDir => media = {})
  BY DEF UpgradeInit, Init
<1>2. FlagsOK
  BY <1>1, Zenon DEF Init, FlagsOK
<1>3. PICK old, new, multiuser \in BOOLEAN :
        /\ fs = [p \in Dirs |->
                  IF p = Live THEN Batch(1) \cup IF multiuser THEN {LayoutVersion} ELSE {}
                  ELSE IF p = Legacy(Other(mark)) /\ old THEN Batch(0)
                  ELSE IF p = Sealed(Other(mark)) /\ old /\ new THEN {LayoutVersion}
                  ELSE NoDir]
        /\ created = Batch(1) \cup IF old THEN Batch(0) ELSE {}
  BY <1>1 DEF Init
<1>4. Other(mark) \in Systems
  BY <1>1 DEF Other, Systems
<1> DEFINE a == Other(mark)
<1>5. /\ fs[Live] \in {Batch(1), Batch(1) \cup {LayoutVersion}}
      /\ fs[Legacy(a)] = (IF old THEN Batch(0) ELSE NoDir)
      /\ fs[Sealed(a)] \in {NoDir, {LayoutVersion}}
      /\ \A d \in Dirs : d \notin {Live, Legacy(a), Sealed(a)} => fs[d] = NoDir
      /\ DOMAIN fs = Dirs /\ fs = [d \in Dirs |-> fs[d]]
      /\ created \in {Batch(1), Batch(1) \cup Batch(0)} /\ (old => created = Batch(1) \cup Batch(0))
  BY <1>3, <1>4, DirNames
<1> HIDE DEF a
<1>6. /\ Batch(0) \subseteq UserEntries /\ Batch(1) \subseteq UserEntries
      /\ \A e \in Batch(0) : e.batch = 0
      /\ \A e \in Batch(1) : e.batch = 1
  <2>1. MaxBatch \in Nat \ {0}
    BY DualAssumption
  <2>2. 0 \in 0 .. MaxBatch /\ 1 \in 0 .. MaxBatch
    BY <2>1
  <2>3. Batch(0) \subseteq UserEntries /\ Batch(1) \subseteq UserEntries
    BY <2>2 DEF UserEntries
  <2> QED  BY <2>3 DEF Batch
<1>7. a \in Systems /\ Legacy(a) \in Dirs /\ Sealed(a) \in Dirs /\ Live \in Dirs
  BY <1>4, DirNames DEF a
<1>8. DirsOK
  <2>1. fs[Live] \in SUBSET (UserEntries \cup {LayoutVersion})
    BY <1>5, <1>6
  <2>2. \A d \in Dirs : fs[d] \in Contents
    BY <2>1, <1>5, <1>6 DEF Contents
  <2>3. fs \in [Dirs -> Contents]
    BY <2>2, <1>5
  <2> QED  BY <2>1, <2>3, Distinct DEF DirsOK, Exists
<1>9. created \subseteq UserEntries
  BY <1>5, <1>6
<1>10. NothingIsBuried
  <2>1. \A i \in Systems : ~Exists(Tmp(i))
    BY <1>5, <1>7, DirNames DEF Exists
  <2> QED  BY <2>1 DEF NothingIsBuried
<1>11. EntriesAreKnown
  <2>1. \A d \in Dirs : fs[d] # NoDir => fs[d] \subseteq created \cup {LayoutVersion}
    BY <1>5
  <2>2. \A i \in Systems : fs[Legacy(i)] # NoDir => fs[Legacy(i)] = Batch(0)
    BY <1>5, <1>7, DirNames
  <2> QED  BY <2>1, <2>2, <1>6 DEF EntriesAreKnown, Exists
<1>12. OnePlace
  <2>1. \A e \in Batch(1), d \in Dirs : e \in fs[d] => d = Live
    <3>1. \A e \in Batch(1) : e \notin NoDir /\ e \notin {LayoutVersion} /\ e \notin Batch(0)
      BY <1>6, Distinct
    <3> QED  BY <3>1, <1>5
  <2>2. \A e \in Batch(0), d \in Dirs : e \in fs[d] => d = Legacy(a)
    <3>1. \A e \in Batch(0) : e \notin NoDir /\ e \notin {LayoutVersion} /\ e \notin Batch(1)
      BY <1>6, Distinct
    <3> QED  BY <3>1, <1>5
  <2> QED  BY <2>1, <2>2, <1>5 DEF OnePlace
<1>13. SomePlace
  BY <1>5, <1>6, <1>7 DEF SomePlace
<1>14. ProgramFits
  BY <1>1 DEF ProgramFits, InOrder, At
<1>15. Core
  BY <1>8, <1>9, <1>10, <1>11, <1>12, <1>13, <1>14 DEF Core, DataOK
<1>16. OthersOK
  BY <1>1, <1>9 DEF OthersOK
<1>17. NothingRunsBeside /\ FilesMoved
  BY <1>1 DEF NothingRunsBeside, FilesMoved
<1> QED  BY <1>2, <1>15, <1>16, <1>17, CoreParts

LEMMA NextPreserves == IInv /\ [UpgradeNext]_allVars => IInv'
<1> SUFFICES ASSUME IInv, [UpgradeNext]_allVars PROVE IInv'
  OBVIOUS
<1>1. Core /\ FlagsOK /\ OthersOK /\ NothingRunsBeside /\ FilesMoved
  BY CoreParts
<1>2. CASE Upgrade
  <2>1. /\ power = "android" /\ upg # "idle"
        /\ UNCHANGED <<mark, created, power, which, enabled, dualprop, todo, harm, cut>>
    BY <1>2 DEF Upgrade, VersionKnown, MakeMedia0, MoveFile, SweepDirectory, MoveEnds,
                WriteVersion, UpgradeStep
  <2>2. todo = <<>>
    BY <2>1, <1>1 DEF NothingRunsBeside
  <2>3. Core'
    BY <2>2, <1>1, <1>2, UpgradePreserves
  <2>4. FlagsOK'
    BY <2>1, <1>1, Zenon DEF FlagsOK
  <2>5. OthersOK'
    BY <2>1, <1>1 DEF OthersOK
  <2>6. NothingRunsBeside'
    BY <2>1, <2>2 DEF NothingRunsBeside
  <2>7. FilesMoved'
    BY <2>1, <1>1, <1>2 DEF FilesMoved, Upgrade, VersionKnown, MakeMedia0, MoveFile, SweepDirectory,
                MoveEnds, WriteVersion, UpgradeStep
  <2> QED  BY <2>3, <2>4, <2>5, <2>6, <2>7, CorePartsNext
<1>3. CASE BootAndroid /\ upg' = "version" /\ UNCHANGED <<media, media0, swept, cut>>
  <2>1. /\ power = "off" /\ power' = "android" /\ harm' \in {harm, "careless"}
        /\ UNCHANGED <<mark, fs, created, which, enabled, dualprop, todo>>
    BY <1>3 DEF BootAndroid
  <2>2. todo' = <<>>
    BY <2>1, <1>1 DEF NothingRunsBeside
  <2>3. Core'
    BY <2>1, <2>2, <1>1, <1>3, StartPreserves
  <2>4. FlagsOK'
    BY <2>1, <1>1, Zenon DEF FlagsOK
  <2>5. OthersOK'
    BY <2>1, <1>1 DEF OthersOK
  <2>6. NothingRunsBeside' /\ FilesMoved'
    <3>1. upg = "idle"
      BY <2>1, <1>1 DEF NothingRunsBeside
    <3> QED  BY <3>1, <2>1, <2>2, <1>1, <1>3 DEF NothingRunsBeside, FilesMoved
  <2> QED  BY <2>3, <2>4, <2>5, <2>6, CorePartsNext
<1>4. CASE PowerOff /\ upg' = "idle" /\ cut' = (cut \/ upg = "move") /\ UNCHANGED <<media, media0, swept>>
  <2>1. /\ power' = "off" /\ todo' = <<>> /\ enabled' = FALSE /\ dualprop' = FALSE
        /\ UNCHANGED <<mark, fs, created, which>>
    BY <1>4 DEF PowerOff
  <2>2. Core'
    BY <2>1, <1>1, <1>4, StartPreserves
  <2>3. FlagsOK'
    BY <2>1, Zenon DEF FlagsOK
  <2>4. OthersOK'
    BY <2>1, <1>1, <1>4 DEF OthersOK, PowerOff, Interrupted
  <2>5. NothingRunsBeside' /\ FilesMoved'
    BY <2>1, <1>1, <1>4 DEF NothingRunsBeside, FilesMoved
  <2> QED  BY <2>2, <2>3, <2>4, <2>5, CorePartsNext
<1>5. CASE upg = "idle" /\ Running /\ UNCHANGED upgVars
  <2>1. upg = "idle" /\ UNCHANGED <<media, media0, upg, swept, cut>>
    BY <1>5 DEF upgVars
  <2>2. Core'
    BY <2>1, <1>1, <1>5, RunningPreserves
  <2>3. FilesMoved'
    BY <2>1, <1>1 DEF FilesMoved
  <2>4. FlagsOK' /\ OthersOK' /\ NothingRunsBeside'
    <3>1. CASE Script
      <4>1. FlagsOK'
        BY <3>1, <1>1, ScriptFlags
      <4>2. /\ UNCHANGED <<created, power, which>> /\ mark' \in Systems
            /\ power # "off" /\ harm' \in {harm, "none"}
        BY <3>1, <1>1, ScriptFrame
      <4>3. OthersOK' /\ NothingRunsBeside'
        BY <4>2, <2>1, <1>1 DEF OthersOK, NothingRunsBeside
      <4> QED  BY <4>1, <4>3
    <3>4. CASE WriteMarkFails
      <4>1. UNCHANGED <<created, power, which, enabled, dualprop>> /\ power # "off"
        BY <3>4 DEF WriteMarkFails, At
      <4>2. FlagsOK'
        BY <4>1, <1>1, Zenon DEF FlagsOK
      <4>3. mark' \in Systems
        <5>1. Arg \in Systems
          BY <3>4, <1>1, Argument DEF WriteMarkFails, Core, SystemSteps
        <5> QED  BY <3>4, <5>1, <1>1 DEF WriteMarkFails, OthersOK
      <4>4. harm' \in {"none", "interrupted", "careless"}
        BY <3>4, <1>1 DEF WriteMarkFails, Interrupted, OthersOK
      <4>5. OthersOK'
        BY <4>1, <4>3, <4>4, <1>1 DEF OthersOK
      <4>6. NothingRunsBeside'
        BY <4>1, <2>1, <1>1 DEF NothingRunsBeside
      <4> QED  BY <4>2, <4>5, <4>6
    <3>2. CASE Dies \/ UserSave \/ UserEnable \/ UserDisable \/ UserGet \/ UserSet \/ BootRecovery
      <4>1. UNCHANGED <<mark, created, enabled, dualprop>> /\ power' # "off"
        BY <3>2 DEF Dies, UserSave, UserEnable, UserDisable, UserGet, UserSet, Start,
                    BootRecovery, At
      <4>2. FlagsOK'
        BY <4>1, <1>1, Zenon DEF FlagsOK
      <4>3. OthersOK'
        BY <3>2, <4>1, <1>1 DEF OthersOK, Dies, UserSave, UserEnable, UserDisable, UserGet,
                    UserSet, Start, BootRecovery, Interrupted
      <4>4. NothingRunsBeside'
        BY <4>1, <2>1 DEF NothingRunsBeside
      <4> QED  BY <4>2, <4>3, <4>4
    <3>3. CASE AndroidWrites
      <4>1. UNCHANGED <<mark, power, which, enabled, dualprop, todo, harm>> /\ power = "android"
        BY <3>3 DEF AndroidWrites
      <4>2. FlagsOK'
        BY <4>1, <1>1, Zenon DEF FlagsOK
      <4>3. OthersOK' /\ NothingRunsBeside'
        BY <4>1, <2>1, <2>2, <1>1 DEF OthersOK, NothingRunsBeside, Core
      <4> QED  BY <4>2, <4>3
    <3> QED  BY <3>1, <3>2, <3>3, <3>4, <1>5 DEF Running
  <2> QED  BY <2>2, <2>3, <2>4, CorePartsNext
<1>6. CASE UNCHANGED allVars
  <2>1. UNCHANGED <<mark, fs, created, power, which, enabled, dualprop, todo, harm>>
        /\ UNCHANGED upgVars
    BY <1>6 DEF allVars, vars
  <2>2. TypeOK'
    BY <2>1, Zenon DEF IInv, TypeOK, Exists
  <2>3. ProgramFits'
    BY <2>1, Zenon DEF IInv, ProgramFits, LegacyOf, MovingOf, Exists, At, Arg
  <2>4. NothingRunsBeside' /\ NothingIsBuried'
    BY <2>1, Zenon DEF IInv, NothingRunsBeside, NothingIsBuried, Exists, upgVars
  <2>5. DataOK' /\ FilesMoved'
    BY <2>1 DEF IInv, DataOK, EntriesAreKnown, OnePlace, SomePlace, FilesMoved, Exists, upgVars
  <2> QED  BY <2>2, <2>3, <2>4, <2>5 DEF IInv
<1> QED  BY <1>2, <1>3, <1>4, <1>5, <1>6 DEF UpgradeNext

-----------------------------------------------------------------------------
(* Theorems. *)

\* The inductive invariant holds in every reachable state, whatever is cut
\* short and whichever system boots.
THEOREM Invariance == UpgradeSpec => []IInv
BY InitEstablishes, NextPreserves, PTL DEF UpgradeSpec

\* Type correctness of the dual data manager.
THEOREM TypeCorrect == UpgradeSpec => []TypeOK
<1>1. IInv => TypeOK
  BY DEF IInv
<1> QED  BY <1>1, Invariance, PTL

\* No rename of dualboot.sh buries data in a directory of its target's name:
\* dualdata_open finishes and migrates before anything is packed or enabled.
THEOREM NeverBuried == UpgradeSpec => []NothingIsBuried
<1>1. IInv => NothingIsBuried
  BY DEF IInv
<1> QED  BY <1>1, Invariance, PTL

\* Power losses, failed mounts, the commands and the layout upgrade, in any
\* order, never lose or duplicate an entry of the user's data.
THEOREM DataKept == UpgradeSpec => []NoUserDataLost
<1>1. IInv => NoUserDataLost
  <2> SUFFICES ASSUME IInv, NEW e \in created
               PROVE  LET places == {p \in Dirs : e \in fs[p]}
                      IN  \/ Cardinality(places) = 1
                          \/ places = {} /\ (e.batch = 0 \/ e \in swept)
    BY DEF NoUserDataLost
  <2> DEFINE places == {p \in Dirs : e \in fs[p]}
  <2>1. OnePlace /\ SomePlace
    BY DEF IInv, DataOK
  <2>2. CASE \E p \in Dirs : e \in fs[p]
    <3>1. PICK p \in Dirs : e \in fs[p]
      BY <2>2
    <3>2. places = {p}
      BY <3>1, <2>1 DEF OnePlace
    <3>3. Cardinality({p}) = 1
      BY FS_Singleton
    <3> QED  BY <3>2, <3>3
  <2>3. CASE ~ \E p \in Dirs : e \in fs[p]
    BY <2>3, <2>1 DEF SomePlace
  <2> QED  BY <2>2, <2>3
<1> QED  BY <1>1, Invariance, PTL

-----------------------------------------------------------------------------
(***************************************************************************)
(* The second inductive invariant: where the data of the two systems is,   *)
(* as long as Android has not run on what an interrupted command left, and *)
(* set was not used.                                                       *)
(***************************************************************************)

Careful == harm # "careless"

SealedOf == {i \in Systems : Exists(Sealed(i))}
OffOf    == {i \in Systems : Exists(Off(i))}

\* The flag of the running command does not tell whether something is sealed.
StaleOf == IF enabled <=> SealedOf # {} THEN {} ELSE {0}

\* The system of the mark, once the running command has written it.
Target == IF todo # <<>> /\ Head(todo)[1] = "mark" THEN Head(todo)[2] ELSE mark

HasStep(s, op) == \E k \in 1 .. Len(s) : s[k][1] = op

\* The steps that may change what is sealed.
Changing == {"clean", "finish", "migrate", "undisable", "disable", "create"}

\* Step x comes before the k-th step of program s; none of kind op does; and the
\* flag is set again after the last step that may change what is sealed.
Before(s, k, x)      == \E j \in 1 .. (k - 1) : s[j] = x
NoneBefore(s, k, op) == \A j \in 1 .. (k - 1) : s[j][1] # op
Refreshed(s, k) ==
    \A j \in 1 .. (k - 1) :
        s[j][1] \in Changing => \E l \in (j + 1) .. (k - 1) : s[l] = <<"flag", 0>>

\* Nothing before the k-th step touches a directory.
AtBeginning(s, k) == \A j \in 1 .. (k - 1) : s[j][1] \in {"mark", "mount"}

\* Where the steps of a program that has not begun its switch may stand.  The
\* switch is its end but for the report.
Placed(s, k) ==
    /\ s[k][1] \notin {"pack", "unpack", "drain"}
    /\ s[k][1] = "lv" => k = 1 /\ s[k][2] # Live
    /\ s[k][1] = "switch" => k = Len(s) - 1 /\ s[Len(s)] = <<"done", 0>>
    /\ s[k][1] = "done" => k = Len(s) /\ k > 1 /\ s[k - 1][1] = "switch"
    /\ s[k][1] = "mark" => k = 1
    /\ s[k][1] = "mount" => k = 1 \/ (k = 2 /\ s[1][1] = "mark")
    /\ s[k][1] \in {"mark", "mount"} => HasStep(s, "clean")
    /\ s[k][1] \in {"mark", "undisable", "create", "switch"} => HasStep(s, "done")
    /\ s[k][1] = "disable" => ~HasStep(s, "done")
    /\ s[k][1] \in {"clean", "create", "disable", "setprop"} => NoneBefore(s, k, "setprop")
    /\ s[k][1] = "create" => HasStep(s, "setprop")
    /\ s[k][1] = "clean" /\ HasStep(s, "done") => HasStep(s, "setprop") \/ AtBeginning(s, k)

\* What comes before a step that relies on it.  m is the system the program
\* switches to; the sets are the systems to be migrated, finished and renamed
\* from .disabled, and the flag if it is stale.
Prepared(s, k, m, legacy, moving, off, stale) ==
    /\ s[k][1] \in {"switch", "create"} => s[k][2] = m
    /\ s[k][1] \in {"switch", "create", "disable"} =>
           /\ \A i \in legacy : Before(s, k, <<"migrate", i>>)
           /\ \A i \in moving : Before(s, k, <<"finish", i>>)
    /\ s[k][1] = "create" =>
           (\A i \in off : Before(s, k, <<"undisable", i>>)) /\ NoneBefore(s, k, "disable")
    /\ s[k][1] \in {"switch", "create"} =>
           (\A i \in stale : Before(s, k, <<"flag", i>>)) /\ Refreshed(s, k)

Early(s, m, legacy, moving, off, stale) ==
    \A k \in 1 .. Len(s) : Placed(s, k) /\ Prepared(s, k, m, legacy, moving, off, stale)

\* Program s from there on: what is left of the switch to system u.
Late(s, u) ==
    /\ Len(s) \in 1 .. 5
    /\ s[Len(s)] = <<"done", 0>>
    /\ Len(s) >= 2 => s[Len(s) - 1] = <<"lv", Live>>
    /\ Len(s) >= 3 => s[Len(s) - 2] = <<"drain", u>>
    /\ Len(s) >= 4 => s[Len(s) - 3] = <<"unpack", u>>
    /\ Len(s) = 5 => s[1] \in {<<"pack", Other(u)>>, <<"finish", Other(u)>>}

\* At most one system's data is sealed, nothing is half moved, and if something
\* is sealed the live data has a layout version.
Tidy ==
    /\ MovingOf = {}
    /\ SealedOf # Systems
    /\ SealedOf # {} => LayoutVersion \in fs[Live]

\* What a switch has reached when it comes to its steps.
LatePhase ==
    LET o == Other(which) IN
    /\ Late(todo, which)
    /\ LegacyOf = {}
    /\ Len(todo) = 5 /\ Head(todo)[1] = "pack" => SealedOf # {} /\ MovingOf = {}
    /\ Len(todo) = 5 /\ Head(todo)[1] = "finish" => MovingOf = {o}
    /\ Len(todo) = 4 => o \in SealedOf /\ MovingOf = {}
    /\ Len(todo) = 3 => which \notin SealedOf /\ o \notin MovingOf
    /\ Len(todo) = 2 => which \notin SealedOf /\ MovingOf = {}
    /\ Len(todo) = 1 => Tidy /\ which \notin SealedOf

EarlyPhase == Early(todo, which, LegacyOf, MovingOf, OffOf, StaleOf)

\* What is sealed, being moved, disabled or left by older versions excludes
\* the rest.
Alone ==
    /\ \A i \in MovingOf : MovingOf = {i} /\ OffOf = {}
    /\ \A i \in LegacyOf : LegacyOf = {i} /\ SealedOf \subseteq {i} /\ OffOf = {}
    /\ \A i \in OffOf : OffOf = {i} /\ SealedOf = {}
    /\ LegacyOf \cup OffOf # {} => LayoutVersion \in fs[Live]
    /\ SealedOf = Systems => fs[Live] = {}

\* A set of entries is what one system created together, or nothing.
Whole(S) ==
    \/ S \subseteq {LayoutVersion}
    \/ \E b \in 0 .. MaxBatch : S \ {LayoutVersion} = Batch(b)

\* The live data, and what is being moved out of it or into it.
Active ==
    {e \in UserEntries \cup {LayoutVersion} :
        e \in fs[Live] \/ \E i \in MovingOf : e \in fs[Tmp(i)]}

SetsAreWhole ==
    /\ Whole(Active)
    /\ \A i \in Systems : \A p \in {Sealed(i), Off(i), Legacy(i)} : Exists(p) => Whole(fs[p])

\* Where the data is between commands, and in a command that does not switch.
Settled ==
    harm = "none" /\ ~HasStep(todo, "done") =>
        Tidy /\ mark \notin SealedOf /\ LegacyOf \subseteq {Other(mark)}

\* The menu offers to disable dual data only when nothing is half moved, also
\* after a command that dies before it has touched a directory.
PropTells == dualprop /\ (HasStep(todo, "done") => HasStep(todo, "clean")) => Tidy

\* Who runs what.
Callers ==
    /\ power = "recovery" /\ harm = "none" => which = Target
    /\ power = "android" =>
            /\ harm = "none"
            /\ \A k \in 1 .. Len(todo) : todo[k][1] \in {"clean", "finish", "migrate", "flag"}
    /\ power \in {"off", "android"} => ~dualprop
    /\ HasStep(todo, "disable") => dualprop
    /\ HasStep(todo, "setprop") => (dualprop <=> ~HasStep(todo, "done"))

NothingSwept ==
    /\ swept = {}
    /\ upg = "move" => SealedOf = {} /\ OffOf = {} /\ MovingOf = {}

InPlace ==
    /\ EarlyPhase \/ LatePhase
    /\ Alone
    /\ SetsAreWhole
    /\ Settled
    /\ PropTells
    /\ Callers
    /\ NothingSwept

JInv == Careful => InPlace

-----------------------------------------------------------------------------
(* Programs that have not begun their switch. *)

\* The rest of a program.
LEMMA TailFacts ==
    ASSUME NEW s \in Seq(Steps), s # <<>>
    PROVE  /\ Tail(s) \in Seq(Steps) /\ Len(s) \in Nat \ {0} /\ Len(Tail(s)) = Len(s) - 1
           /\ \A k \in 1 .. Len(Tail(s)) : Tail(s)[k] = s[k + 1]
           /\ Head(s) = s[1]
OBVIOUS

\* The steps that are left when the first one is done.
LEMMA TailSteps ==
    ASSUME NEW s \in Seq(Steps), s # <<>>, NEW op
    PROVE  /\ HasStep(Tail(s), op) => HasStep(s, op)
           /\ HasStep(s, op) /\ Head(s)[1] # op => HasStep(Tail(s), op)
<1> DEFINE t == Tail(s)
<1>1. /\ Len(s) \in Nat \ {0} /\ Len(t) = Len(s) - 1
      /\ \A k \in 1 .. Len(t) : t[k] = s[k + 1]
      /\ Head(s) = s[1]
  BY TailFacts
<1> HIDE DEF t
<1>2. ASSUME HasStep(t, op) PROVE HasStep(s, op)
  <2>1. PICK k \in 1 .. Len(t) : t[k][1] = op
    BY <1>2 DEF HasStep
  <2>2. k + 1 \in 1 .. Len(s) /\ s[k + 1][1] = op
    BY <2>1, <1>1
  <2> QED  BY <2>2 DEF HasStep
<1>3. ASSUME HasStep(s, op), Head(s)[1] # op PROVE HasStep(t, op)
  <2>1. PICK k \in 1 .. Len(s) : s[k][1] = op
    BY <1>3 DEF HasStep
  <2>2. k # 1
    BY <2>1, <1>1, <1>3
  <2>3. k - 1 \in 1 .. Len(t) /\ (k - 1) + 1 = k
    BY <2>2, <1>1
  <2>4. t[k - 1] = s[k]
    BY <2>3, <1>1
  <2> QED  BY <2>1, <2>3, <2>4 DEF HasStep
<1> QED  BY <1>2, <1>3 DEF t

\* What came before a step of it still does, but for what is done.
LEMMA TailBefore ==
    ASSUME NEW s \in Seq(Steps), s # <<>>, NEW k \in 1 .. Len(Tail(s))
    PROVE  /\ \A x : Before(s, k + 1, x) /\ Head(s) # x => Before(Tail(s), k, x)
           /\ \A op : NoneBefore(s, k + 1, op) => NoneBefore(Tail(s), k, op) /\ Head(s)[1] # op
           /\ Refreshed(s, k + 1) => Refreshed(Tail(s), k)
           /\ Refreshed(s, k + 1) /\ Head(s)[1] \in Changing => Before(Tail(s), k, <<"flag", 0>>)
           /\ AtBeginning(s, k + 1) => AtBeginning(Tail(s), k)
<1> DEFINE t == Tail(s)
<1>1. /\ Len(s) \in Nat \ {0} /\ Len(t) = Len(s) - 1
      /\ \A j \in 1 .. Len(t) : t[j] = s[j + 1]
      /\ Head(s) = s[1]
      /\ (k + 1) - 1 = k /\ k \in 1 .. Len(t) /\ 1 \in 1 .. k
  BY TailFacts
<1> HIDE DEF t
<1>2. \A j \in 1 .. (k - 1) : j + 1 \in 1 .. k /\ t[j] = s[j + 1]
  BY <1>1
<1>3. \A j \in 1 .. k : j # 1 => j - 1 \in 1 .. (k - 1) /\ t[j - 1] = s[j]
  <2> SUFFICES ASSUME NEW j \in 1 .. k, j # 1
               PROVE  j - 1 \in 1 .. (k - 1) /\ t[j - 1] = s[j]
    OBVIOUS
  <2>1. j - 1 \in 1 .. (k - 1) /\ j - 1 \in 1 .. Len(t) /\ (j - 1) + 1 = j
    BY <1>1
  <2> QED  BY <2>1, <1>1
<1>4. ASSUME NEW x, Before(s, k + 1, x), Head(s) # x PROVE Before(t, k, x)
  <2>1. PICK j \in 1 .. k : s[j] = x
    BY <1>4, <1>1 DEF Before
  <2>2. j # 1
    BY <2>1, <1>4, <1>1
  <2> QED  BY <2>1, <2>2, <1>3 DEF Before
<1>5. ASSUME NEW op, NoneBefore(s, k + 1, op) PROVE NoneBefore(t, k, op) /\ Head(s)[1] # op
  <2>1. \A j \in 1 .. k : s[j][1] # op
    BY <1>5, <1>1 DEF NoneBefore
  <2> QED  BY <2>1, <1>2, <1>1 DEF NoneBefore
<1>6. ASSUME Refreshed(s, k + 1), NEW j \in 1 .. k, s[j][1] \in Changing
      PROVE  \E l \in 1 .. (k - 1) : l >= j /\ t[l] = <<"flag", 0>>
  <2>1. PICK l \in (j + 1) .. k : s[l] = <<"flag", 0>>
    BY <1>6, <1>1 DEF Refreshed
  <2>2. l \in 1 .. k /\ l # 1 /\ l - 1 >= j
    BY <1>1
  <2> QED  BY <2>1, <2>2, <1>3
<1>7. ASSUME Refreshed(s, k + 1) PROVE Refreshed(t, k)
  <2> SUFFICES ASSUME NEW j \in 1 .. (k - 1), t[j][1] \in Changing
               PROVE  \E l \in (j + 1) .. (k - 1) : t[l] = <<"flag", 0>>
    BY DEF Refreshed
  <2>1. j + 1 \in 1 .. k /\ s[j + 1][1] \in Changing
    BY <1>2
  <2>2. PICK l \in 1 .. (k - 1) : l >= j + 1 /\ t[l] = <<"flag", 0>>
    BY <2>1, <1>6, <1>7
  <2>3. l \in (j + 1) .. (k - 1)
    BY <2>2
  <2> QED  BY <2>2, <2>3
<1>8. ASSUME Refreshed(s, k + 1), Head(s)[1] \in Changing PROVE Before(t, k, <<"flag", 0>>)
  <2>1. 1 \in 1 .. k /\ s[1][1] \in Changing
    BY <1>8, <1>1
  <2>2. PICK l \in 1 .. (k - 1) : l >= 1 /\ t[l] = <<"flag", 0>>
    BY <2>1, <1>6, <1>8
  <2> QED  BY <2>2 DEF Before
<1>9. ASSUME AtBeginning(s, k + 1) PROVE AtBeginning(t, k)
  <2>1. \A j \in 1 .. k : s[j][1] \in {"mark", "mount"}
    BY <1>9, <1>1 DEF AtBeginning
  <2> QED  BY <2>1, <1>2 DEF AtBeginning
<1> QED  BY <1>4, <1>5, <1>7, <1>8, <1>9 DEF t

\* The first step is done, and what it was to migrate, finish, rename or look at
\* is no longer to be.
Advanced(s, legacy, moving, off, stale, legacy2, moving2, off2, stale2) ==
    /\ s \in Seq(Steps) /\ s # <<>> /\ Head(s)[1] # "switch"
    /\ \A i \in legacy2 : i \in legacy /\ Head(s) # <<"migrate", i>>
    /\ \A i \in moving2 : i \in moving /\ Head(s) # <<"finish", i>>
    /\ \A i \in off2 : Head(s)[1] = "disable" \/ (i \in off /\ Head(s) # <<"undisable", i>>)
    /\ \A i \in stale2 : /\ i = 0
                         /\ Head(s)[1] \in Changing \/ (0 \in stale /\ Head(s) # <<"flag", 0>>)

\* A program is as well prepared for what is left as it was before.
LEMMA EarlyPop ==
    ASSUME NEW s, NEW m, NEW legacy, NEW moving, NEW off, NEW stale,
           NEW legacy2, NEW moving2, NEW off2, NEW stale2,
           Early(s, m, legacy, moving, off, stale),
           Advanced(s, legacy, moving, off, stale, legacy2, moving2, off2, stale2)
    PROVE  Early(Tail(s), m, legacy2, moving2, off2, stale2)
<1> DEFINE t == Tail(s)
<1>1. s \in Seq(Steps) /\ s # <<>> /\ Head(s)[1] # "switch"
  BY DEF Advanced
<1>2. \A i \in stale2 :
        i = 0 /\ (Head(s)[1] \in Changing \/ (0 \in stale /\ Head(s) # <<"flag", 0>>))
  BY DEF Advanced
<1>3. /\ Len(s) \in Nat \ {0} /\ Len(t) = Len(s) - 1
      /\ \A k \in 1 .. Len(t) : t[k] = s[k + 1]
      /\ Head(s) = s[1]
  BY <1>1, TailFacts
<1>4. SUFFICES ASSUME NEW k \in 1 .. Len(t)
               PROVE  Placed(t, k) /\ Prepared(t, k, m, legacy2, moving2, off2, stale2)
  BY DEF Early
<1>5. /\ \A x : Before(s, k + 1, x) /\ Head(s) # x => Before(t, k, x)
      /\ \A op : NoneBefore(s, k + 1, op) => NoneBefore(t, k, op) /\ Head(s)[1] # op
      /\ Refreshed(s, k + 1) => Refreshed(t, k)
      /\ Refreshed(s, k + 1) /\ Head(s)[1] \in Changing => Before(t, k, <<"flag", 0>>)
      /\ AtBeginning(s, k + 1) => AtBeginning(t, k)
  BY <1>1, TailBefore
<1>6. /\ HasStep(t, "done") => HasStep(s, "done")
      /\ \A op : HasStep(s, op) /\ Head(s)[1] # op => HasStep(t, op)
  BY <1>1, TailSteps
<1> HIDE DEF t
<1>7. /\ k + 1 \in 1 .. Len(s) /\ t[k] = s[k + 1] /\ k + 1 # 1
      /\ k + 1 = Len(s) => k = Len(t)
      /\ k + 1 = Len(s) - 1 => k = Len(t) - 1
      /\ k # 1 => k - 1 \in 1 .. Len(t) /\ t[k - 1] = s[k]
      /\ Len(t) \in 1 .. Len(t) /\ t[Len(t)] = s[Len(s)]
      /\ (k + 1) - 1 = k /\ 1 \in 1 .. Len(s)
  <2>1. Len(t) \in 1 .. Len(t) /\ Len(t) + 1 = Len(s)
    BY <1>3
  <2>2. t[Len(t)] = s[Len(s)]
    BY <2>1, <1>3
  <2>3. k # 1 => k - 1 \in 1 .. Len(t) /\ (k - 1) + 1 = k
    BY <1>3
  <2>4. k # 1 => t[k - 1] = s[k]
    BY <2>3, <1>3
  <2>5. /\ k + 1 \in 1 .. Len(s) /\ k + 1 # 1 /\ (k + 1) - 1 = k /\ 1 \in 1 .. Len(s)
        /\ k + 1 = Len(s) => k = Len(t)
        /\ k + 1 = Len(s) - 1 => k = Len(t) - 1
    <3>1. Len(s) \in Nat \ {0} /\ Len(t) = Len(s) - 1
      BY <1>3
    <3> QED  BY <3>1
  <2>6. t[k] = s[k + 1]
    BY <1>3
  <2> QED  BY <2>1, <2>2, <2>3, <2>4, <2>5, <2>6
<1>8. /\ Placed(s, k + 1) /\ Prepared(s, k + 1, m, legacy, moving, off, stale)
      /\ Placed(s, 1)
  BY <1>7 DEF Early
<1>9. Head(s)[1] # "done"
  BY <1>8, <1>3 DEF Placed
<1>10. Placed(t, k)
  <2>1. s[k + 1][1] = "done" => k # 1 /\ k > 1
    BY <1>8, <1>7, <1>1, <1>3 DEF Placed
  <2>2. s[k + 1][1] \in {"mark", "mount"} => HasStep(t, "clean")
    <3>1. s[k + 1][1] # "mark"
      BY <1>7, <1>8 DEF Placed
    <3>2. s[k + 1][1] = "mount" => Head(s)[1] = "mark" /\ HasStep(s, "clean")
      BY <1>3, <1>7, <1>8 DEF Placed
    <3> QED  BY <3>1, <3>2, <1>6
  <2>3. s[k + 1][1] \in {"clean", "create", "disable", "setprop"} =>
            NoneBefore(t, k, "setprop") /\ Head(s)[1] # "setprop"
    BY <1>5, <1>8 DEF Placed
  <2>4. s[k + 1][1] = "create" => HasStep(t, "setprop")
    BY <2>3, <1>6, <1>8 DEF Placed
  <2>5. s[k + 1][1] = "clean" /\ HasStep(t, "done") => HasStep(t, "setprop") \/ AtBeginning(t, k)
    BY <2>3, <1>5, <1>6, <1>8 DEF Placed
  <2>6. /\ s[k + 1][1] \in {"mark", "undisable", "create", "switch"} => HasStep(t, "done")
        /\ s[k + 1][1] = "disable" => ~HasStep(t, "done")
    BY <1>6, <1>8, <1>9 DEF Placed
  <2> QED  BY <2>1, <2>2, <2>3, <2>4, <2>5, <2>6, <1>7, <1>8 DEF Placed
<1>11. Prepared(t, k, m, legacy2, moving2, off2, stale2)
  <2>1. ASSUME t[k][1] \in {"switch", "create", "disable"}
        PROVE  /\ \A i \in legacy2 : Before(t, k, <<"migrate", i>>)
               /\ \A i \in moving2 : Before(t, k, <<"finish", i>>)
    BY <2>1, <1>5, <1>7, <1>8 DEF Prepared, Advanced
  <2>2. ASSUME t[k][1] = "create"
        PROVE  (\A i \in off2 : Before(t, k, <<"undisable", i>>)) /\ NoneBefore(t, k, "disable")
    <3>1. (\A i \in off : Before(s, k + 1, <<"undisable", i>>)) /\ NoneBefore(s, k + 1, "disable")
      BY <2>2, <1>7, <1>8 DEF Prepared
    <3> QED  BY <3>1, <1>5 DEF Advanced
  <2>3. ASSUME t[k][1] \in {"switch", "create"}
        PROVE  (\A i \in stale2 : Before(t, k, <<"flag", i>>)) /\ Refreshed(t, k)
    <3>1. (\A i \in stale : Before(s, k + 1, <<"flag", i>>)) /\ Refreshed(s, k + 1)
      BY <2>3, <1>7, <1>8 DEF Prepared
    <3>2. ASSUME NEW i \in stale2 PROVE Before(t, k, <<"flag", i>>)
      <4>1. i = 0 /\ (Head(s)[1] \in Changing \/ (0 \in stale /\ Head(s) # <<"flag", 0>>))
        BY <1>2
      <4>2. CASE Head(s)[1] \in Changing
        BY <4>1, <4>2, <3>1, <1>5
      <4>3. CASE 0 \in stale /\ Head(s) # <<"flag", 0>>
        <5>1. Before(s, k + 1, <<"flag", 0>>)
          BY <4>3, <3>1
        <5> QED  BY <5>1, <4>1, <4>3, <1>5
      <4> QED  BY <4>1, <4>2, <4>3
    <3>3. Refreshed(t, k)
      BY <3>1, <1>5
    <3> QED  BY <3>2, <3>3
  <2> QED  BY <2>1, <2>2, <2>3, <1>7, <1>8 DEF Prepared
<1> QED  BY <1>10, <1>11

\* A program that is prepared for everything is prepared for less.
LEMMA EarlyLess ==
    ASSUME NEW s, NEW m, Early(s, m, Systems, Systems, Systems, {0}),
           NEW legacy \in SUBSET Systems, NEW moving \in SUBSET Systems,
           NEW off \in SUBSET Systems, NEW stale \in SUBSET {0}
    PROVE  Early(s, m, legacy, moving, off, stale)
BY DEF Early, Prepared

\* The program of save and set.
LEMMA SaveIsEarly ==
    ASSUME NEW w \in Systems
    PROVE  /\ Early(SaveProgram(w), w, Systems, Systems, Systems, {0})
           /\ SaveProgram(w) # <<>>
           /\ Head(SaveProgram(w)) = <<"mark", w>>
           /\ HasStep(SaveProgram(w), "done")
           /\ HasStep(SaveProgram(w), "clean")
           /\ ~HasStep(SaveProgram(w), "disable")
           /\ ~HasStep(SaveProgram(w), "setprop")
<1> DEFINE s == SaveProgram(w)
<1>1. /\ Len(s) = 10 /\ s # <<>> /\ Head(s) = s[1]
      /\ s[1] = <<"mark", w>> /\ s[2] = <<"mount", 0>> /\ s[3] = <<"clean", 0>>
      /\ s[4] = <<"finish", 1>> /\ s[5] = <<"finish", 2>> /\ s[6] = <<"migrate", 1>>
      /\ s[7] = <<"migrate", 2>> /\ s[8] = <<"flag", 0>> /\ s[9] = <<"switch", w>>
      /\ s[10] = <<"done", 0>>
  BY DEF SaveProgram, Open
<1> HIDE DEF s
<1>2. \A k \in 1 .. 10 :
        /\ s[k][1] \notin {"pack", "unpack", "drain", "lv", "undisable", "disable"}
        /\ s[k][1] \notin {"create", "setprop"}
        /\ s[k][1] = "mark" => k = 1
        /\ s[k][1] = "mount" => k = 2
        /\ s[k][1] = "clean" => k = 3
        /\ s[k][1] = "switch" => k = 9
        /\ s[k][1] = "done" => k = 10
        /\ s[k][1] \in Changing => k < 8
  BY <1>1 DEF Changing
<1>3. HasStep(s, "done") /\ HasStep(s, "clean") /\ ~HasStep(s, "disable") /\ ~HasStep(s, "setprop")
  BY <1>1, <1>2 DEF HasStep
<1>4. /\ \A i \in Systems : Before(s, 9, <<"migrate", i>>) /\ Before(s, 9, <<"finish", i>>)
      /\ Before(s, 9, <<"flag", 0>>)
  <2>1. /\ s[4] = <<"finish", 1>> /\ s[5] = <<"finish", 2>>
        /\ s[6] = <<"migrate", 1>> /\ s[7] = <<"migrate", 2>>
        /\ s[8] = <<"flag", 0>>
    BY <1>1
  <2>2. {4, 5, 6, 7, 8} \subseteq 1 .. (9 - 1)
    OBVIOUS
  <2> QED  BY <2>1, <2>2 DEF Systems, Before
<1>5. Refreshed(s, 9)
  <2>1. \A j \in 1 .. 8 : s[j][1] \in Changing => 8 \in (j + 1) .. 8
    BY <1>1, <1>2 DEF Changing
  <2>2. 9 - 1 = 8 /\ s[8] = <<"flag", 0>>
    BY <1>1
  <2> QED  BY <2>1, <2>2 DEF Refreshed
<1>6. ASSUME NEW k \in 1 .. Len(s)
      PROVE  Placed(s, k) /\ Prepared(s, k, w, Systems, Systems, Systems, {0})
  <2>1. Placed(s, k)
    <3>1. AtBeginning(s, 3)
      <4>1. s[1] = <<"mark", w>> /\ s[2] = <<"mount", 0>> /\ 1 .. (3 - 1) = {1, 2}
        BY <1>1
      <4> QED  BY <4>1 DEF AtBeginning
    <3>2. s[k][1] = "clean" => AtBeginning(s, k)
      BY <3>1, <1>1, <1>2
    <3>3. NoneBefore(s, k, "setprop")
      BY <1>1, <1>2 DEF NoneBefore
    <3> QED  BY <3>2, <3>3, <1>1, <1>2, <1>3 DEF Placed
  <2>2. CASE k = 9
    <3>1. s[9][1] = "switch" /\ s[9][2] = w
      BY <1>1
    <3> QED  BY <2>1, <2>2, <3>1, <1>4, <1>5 DEF Prepared
  <2>3. CASE k # 9
    <3>1. s[k][1] \notin {"switch", "create", "disable"}
      BY <2>3, <1>1, <1>2
    <3> QED  BY <2>1, <3>1 DEF Prepared
  <2> QED  BY <2>2, <2>3
<1>7. Early(s, w, Systems, Systems, Systems, {0})
  BY <1>6 DEF Early
<1>8. s # <<>> /\ Head(s) = <<"mark", w>>
  BY <1>1
<1> QED  BY <1>3, <1>7, <1>8 DEF s

\* The program of load.
LEMMA LoadIsEarly ==
    ASSUME NEW w \in Systems
    PROVE  /\ Early(LoadProgram(w), w, Systems, Systems, Systems, {0})
           /\ LoadProgram(w) # <<>>
           /\ Head(LoadProgram(w))[1] # "mark"
           /\ HasStep(LoadProgram(w), "done")
           /\ HasStep(LoadProgram(w), "clean")
           /\ HasStep(LoadProgram(w), "setprop")
           /\ ~HasStep(LoadProgram(w), "disable")
<1> DEFINE s == LoadProgram(w)
<1>1. /\ Len(s) = 10 /\ s # <<>> /\ Head(s) = s[1]
      /\ s[1] = <<"mount", 0>> /\ s[2] = <<"clean", 0>> /\ s[3] = <<"finish", 1>>
      /\ s[4] = <<"finish", 2>> /\ s[5] = <<"migrate", 1>> /\ s[6] = <<"migrate", 2>>
      /\ s[7] = <<"flag", 0>> /\ s[8] = <<"setprop", 0>> /\ s[9] = <<"switch", w>>
      /\ s[10] = <<"done", 0>>
  BY DEF LoadProgram, Open
<1> HIDE DEF s
<1>2. \A k \in 1 .. 10 :
        /\ s[k][1] \notin {"pack", "unpack", "drain", "lv", "undisable", "disable"}
        /\ s[k][1] \notin {"create", "mark"}
        /\ s[k][1] = "mount" => k = 1
        /\ s[k][1] = "switch" => k = 9
        /\ s[k][1] = "done" => k = 10
        /\ s[k][1] = "setprop" => k = 8
        /\ s[k][1] \in Changing => k < 7
  BY <1>1 DEF Changing
<1>3. HasStep(s, "done") /\ HasStep(s, "clean") /\ HasStep(s, "setprop") /\ ~HasStep(s, "disable")
  BY <1>1, <1>2 DEF HasStep
<1>4. /\ \A i \in Systems : Before(s, 9, <<"migrate", i>>) /\ Before(s, 9, <<"finish", i>>)
      /\ Before(s, 9, <<"flag", 0>>)
  <2>1. /\ s[3] = <<"finish", 1>> /\ s[4] = <<"finish", 2>>
        /\ s[5] = <<"migrate", 1>> /\ s[6] = <<"migrate", 2>>
        /\ s[7] = <<"flag", 0>>
    BY <1>1
  <2>2. {3, 4, 5, 6, 7} \subseteq 1 .. (9 - 1)
    OBVIOUS
  <2> QED  BY <2>1, <2>2 DEF Systems, Before
<1>5. Refreshed(s, 9)
  <2>1. \A j \in 1 .. 8 : s[j][1] \in Changing => 7 \in (j + 1) .. 8
    BY <1>1, <1>2 DEF Changing
  <2>2. 9 - 1 = 8 /\ s[7] = <<"flag", 0>>
    BY <1>1
  <2> QED  BY <2>1, <2>2 DEF Refreshed
<1>6. ASSUME NEW k \in 1 .. Len(s)
      PROVE  Placed(s, k) /\ Prepared(s, k, w, Systems, Systems, Systems, {0})
  <2>1. Placed(s, k)
    <3>1. s[k][1] \in {"clean", "create", "disable", "setprop"} => k <= 8
      BY <1>1, <1>2 DEF Changing
    <3>2. k <= 8 => NoneBefore(s, k, "setprop")
      BY <1>1, <1>2 DEF NoneBefore
    <3> QED  BY <3>1, <3>2, <1>1, <1>2, <1>3 DEF Placed
  <2>2. CASE k = 9
    <3>1. s[9][1] = "switch" /\ s[9][2] = w
      BY <1>1
    <3> QED  BY <2>1, <2>2, <3>1, <1>4, <1>5 DEF Prepared
  <2>3. CASE k # 9
    <3>1. s[k][1] \notin {"switch", "create", "disable"}
      BY <2>3, <1>1, <1>2
    <3> QED  BY <2>1, <3>1 DEF Prepared
  <2> QED  BY <2>2, <2>3
<1>7. Early(s, w, Systems, Systems, Systems, {0})
  BY <1>6 DEF Early
<1>8. s # <<>> /\ Head(s)[1] # "mark"
  <2>1. s # <<>> /\ Head(s) = <<"mount", 0>>
    BY <1>1
  <2> QED  BY <2>1
<1> QED  BY <1>3, <1>7, <1>8 DEF s

\* The program of enabledualdata.
LEMMA EnableIsEarly ==
    ASSUME NEW w \in Systems
    PROVE  /\ Early(EnableProgram(w), w, Systems, Systems, Systems, {0})
           /\ EnableProgram(w) # <<>>
           /\ Head(EnableProgram(w))[1] # "mark"
           /\ HasStep(EnableProgram(w), "done")
           /\ HasStep(EnableProgram(w), "clean")
           /\ HasStep(EnableProgram(w), "setprop")
           /\ ~HasStep(EnableProgram(w), "disable")
<1> DEFINE s == EnableProgram(w)
<1>1. /\ Len(s) = 25 /\ s # <<>> /\ Head(s) = s[1]
      /\ s[1] = <<"mount", 0>> /\ s[2] = <<"clean", 0>> /\ s[3] = <<"finish", 1>>
      /\ s[4] = <<"finish", 2>> /\ s[5] = <<"migrate", 1>> /\ s[6] = <<"migrate", 2>>
      /\ s[7] = <<"flag", 0>> /\ s[8] = <<"undisable", 1>> /\ s[9] = <<"undisable", 2>>
      /\ s[10] = <<"clean", 0>> /\ s[11] = <<"finish", 1>> /\ s[12] = <<"finish", 2>>
      /\ s[13] = <<"migrate", 1>> /\ s[14] = <<"migrate", 2>> /\ s[15] = <<"flag", 0>>
      /\ s[16] = <<"create", w>> /\ s[17] = <<"clean", 0>> /\ s[18] = <<"finish", 1>>
      /\ s[19] = <<"finish", 2>> /\ s[20] = <<"migrate", 1>> /\ s[21] = <<"migrate", 2>>
      /\ s[22] = <<"flag", 0>> /\ s[23] = <<"setprop", 0>> /\ s[24] = <<"switch", w>>
      /\ s[25] = <<"done", 0>>
  BY DEF EnableProgram, Open
<1> HIDE DEF s
<1>2. ASSUME NEW k \in 1 .. 25
      PROVE  /\ s[k][1] \notin {"pack", "unpack", "drain", "lv", "disable", "mark"}
             /\ s[k][1] = "mount" => k = 1
             /\ s[k][1] = "switch" => k = 24
             /\ s[k][1] = "done" => k = 25
             /\ s[k][1] = "create" => k = 16
             /\ s[k][1] = "setprop" => k = 23
             /\ s[k][1] = "undisable" => k \in {8, 9}
             /\ s[k][1] \in Changing => k < 22
  <2>1. CASE k \in 1 .. 5
    <3>1. k = 1 \/ k = 2 \/ k = 3 \/ k = 4 \/ k = 5
      BY <2>1
    <3>2. /\ s[1] = <<"mount", 0>> /\ s[2] = <<"clean", 0>> /\ s[3] = <<"finish", 1>>
          /\ s[4] = <<"finish", 2>> /\ s[5] = <<"migrate", 1>>
      BY <1>1
    <3> QED  BY <3>1, <3>2 DEF Changing
  <2>2. CASE k \in 6 .. 10
    <3>1. k = 6 \/ k = 7 \/ k = 8 \/ k = 9 \/ k = 10
      BY <2>2
    <3>2. /\ s[6] = <<"migrate", 2>> /\ s[7] = <<"flag", 0>> /\ s[8] = <<"undisable", 1>>
          /\ s[9] = <<"undisable", 2>> /\ s[10] = <<"clean", 0>>
      BY <1>1
    <3> QED  BY <3>1, <3>2 DEF Changing
  <2>3. CASE k \in 11 .. 15
    <3>1. k = 11 \/ k = 12 \/ k = 13 \/ k = 14 \/ k = 15
      BY <2>3
    <3>2. /\ s[11] = <<"finish", 1>> /\ s[12] = <<"finish", 2>> /\ s[13] = <<"migrate", 1>>
          /\ s[14] = <<"migrate", 2>> /\ s[15] = <<"flag", 0>>
      BY <1>1
    <3> QED  BY <3>1, <3>2 DEF Changing
  <2>4. CASE k \in 16 .. 20
    <3>1. k = 16 \/ k = 17 \/ k = 18 \/ k = 19 \/ k = 20
      BY <2>4
    <3>2. /\ s[16] = <<"create", w>> /\ s[17] = <<"clean", 0>> /\ s[18] = <<"finish", 1>>
          /\ s[19] = <<"finish", 2>> /\ s[20] = <<"migrate", 1>>
      BY <1>1
    <3> QED  BY <3>1, <3>2 DEF Changing
  <2>5. CASE k \in 21 .. 25
    <3>1. k = 21 \/ k = 22 \/ k = 23 \/ k = 24 \/ k = 25
      BY <2>5
    <3>2. /\ s[21] = <<"migrate", 2>> /\ s[22] = <<"flag", 0>> /\ s[23] = <<"setprop", 0>>
          /\ s[24] = <<"switch", w>> /\ s[25] = <<"done", 0>>
      BY <1>1
    <3> QED  BY <3>1, <3>2 DEF Changing
  <2>6. k \in 1 .. 5 \/ k \in 6 .. 10 \/ k \in 11 .. 15 \/ k \in 16 .. 20 \/ k \in 21 .. 25
    OBVIOUS
  <2> QED  BY <2>1, <2>2, <2>3, <2>4, <2>5, <2>6
<1>3. HasStep(s, "done") /\ HasStep(s, "clean") /\ HasStep(s, "setprop") /\ ~HasStep(s, "disable")
  <2>1. /\ {2, 23, 25} \subseteq 1 .. Len(s) /\ Len(s) = 25
        /\ s[2][1] = "clean" /\ s[23][1] = "setprop" /\ s[25][1] = "done"
    BY <1>1
  <2> QED  BY <2>1, <1>2 DEF HasStep
<1>4. /\ \A i \in Systems : Before(s, 16, <<"migrate", i>>) /\ Before(s, 16, <<"finish", i>>)
      /\ \A i \in Systems : Before(s, 16, <<"undisable", i>>)
      /\ NoneBefore(s, 16, "disable")
      /\ Before(s, 16, <<"flag", 0>>)
  <2>1. /\ s[11] = <<"finish", 1>> /\ s[12] = <<"finish", 2>>
        /\ s[13] = <<"migrate", 1>> /\ s[14] = <<"migrate", 2>>
        /\ s[8] = <<"undisable", 1>> /\ s[9] = <<"undisable", 2>>
        /\ s[15] = <<"flag", 0>>
    BY <1>1
  <2>2. {8, 9, 11, 12, 13, 14, 15} \subseteq 1 .. (16 - 1)
    OBVIOUS
  <2>3. NoneBefore(s, 16, "disable")
    BY <1>2 DEF NoneBefore
  <2> QED  BY <2>1, <2>2, <2>3 DEF Systems, Before
<1>5. Refreshed(s, 16)
  <2>1. ASSUME NEW j \in 1 .. 15, s[j][1] \in Changing PROVE 15 \in (j + 1) .. 15
    <3>1. s[15] = <<"flag", 0>>
      BY <1>1
    <3>2. j # 15
      BY <3>1, <2>1 DEF Changing
    <3> QED  BY <3>2
  <2>2. 16 - 1 = 15 /\ s[15] = <<"flag", 0>>
    BY <1>1
  <2> QED  BY <2>1, <2>2 DEF Refreshed
<1>6. /\ \A i \in Systems : Before(s, 24, <<"migrate", i>>) /\ Before(s, 24, <<"finish", i>>)
      /\ Before(s, 24, <<"flag", 0>>)
  <2>1. /\ s[18] = <<"finish", 1>> /\ s[19] = <<"finish", 2>>
        /\ s[20] = <<"migrate", 1>> /\ s[21] = <<"migrate", 2>>
        /\ s[22] = <<"flag", 0>>
    BY <1>1
  <2>2. {18, 19, 20, 21, 22} \subseteq 1 .. (24 - 1)
    OBVIOUS
  <2> QED  BY <2>1, <2>2 DEF Systems, Before
<1>7. Refreshed(s, 24)
  <2>1. ASSUME NEW j \in 1 .. 23, s[j][1] \in Changing PROVE 22 \in (j + 1) .. 23
    <3>1. j \in 1 .. 25
      OBVIOUS
    <3>2. j < 22
      BY <3>1, <2>1, <1>2
    <3> QED  BY <3>2
  <2>2. 24 - 1 = 23 /\ s[22] = <<"flag", 0>>
    BY <1>1
  <2> QED  BY <2>1, <2>2 DEF Refreshed
<1>8. ASSUME NEW k \in 1 .. Len(s)
      PROVE  Placed(s, k) /\ Prepared(s, k, w, Systems, Systems, Systems, {0})
  <2>1. Placed(s, k)
    <3>1. k \in 1 .. 25
      BY <1>1
    <3>2. /\ s[k][1] \notin {"pack", "unpack", "drain", "lv", "disable", "mark"}
          /\ s[k][1] = "mount" => k = 1
          /\ s[k][1] = "switch" => k = 24
          /\ s[k][1] = "done" => k = 25
          /\ s[k][1] = "create" => k = 16
          /\ s[k][1] = "setprop" => k = 23
          /\ s[k][1] = "undisable" => k \in {8, 9}
          /\ s[k][1] \in Changing => k < 22
      BY <3>1, <1>2
    <3>3. s[k][1] \in {"clean", "create", "disable", "setprop"} => NoneBefore(s, k, "setprop")
      <4> SUFFICES ASSUME s[k][1] \in {"clean", "create", "disable", "setprop"}, NEW j \in 1 .. (k - 1)
                   PROVE  s[j][1] # "setprop"
        BY DEF NoneBefore
      <4>1. k <= 23
        BY <3>1, <3>2 DEF Changing
      <4>2. j \in 1 .. 25 /\ j # 23
        BY <4>1, <3>1
      <4> QED  BY <4>2, <1>2
    <3>4. Len(s) = 25 /\ s[24] = <<"switch", w>> /\ s[25] = <<"done", 0>>
      BY <1>1
    <3> QED  BY <3>1, <3>2, <3>3, <3>4, <1>3 DEF Placed
  <2>2. CASE k = 16
    <3>1. s[16][1] = "create" /\ s[16][2] = w
      BY <1>1
    <3> QED  BY <2>1, <2>2, <3>1, <1>4, <1>5 DEF Prepared
  <2>3. CASE k = 24
    <3>1. s[24][1] = "switch" /\ s[24][2] = w
      BY <1>1
    <3> QED  BY <2>1, <2>3, <3>1, <1>6, <1>7 DEF Prepared
  <2>4. CASE k # 16 /\ k # 24
    <3>1. s[k][1] \notin {"switch", "create", "disable"}
      BY <2>4, <1>1, <1>2
    <3> QED  BY <2>1, <3>1 DEF Prepared
  <2> QED  BY <2>2, <2>3, <2>4
<1>9. Early(s, w, Systems, Systems, Systems, {0})
  BY <1>8 DEF Early
<1>10. s # <<>> /\ Head(s)[1] # "mark"
  <2>1. s # <<>> /\ Head(s) = <<"mount", 0>>
    BY <1>1
  <2> QED  BY <2>1
<1> QED  BY <1>3, <1>9, <1>10 DEF s

\* The program of disabledualdata.
LEMMA DisableIsEarly ==
    ASSUME NEW w \in Systems
    PROVE  /\ Early(DisableProgram, w, Systems, Systems, Systems, {0})
           /\ DisableProgram # <<>>
           /\ Head(DisableProgram)[1] # "mark"
           /\ ~HasStep(DisableProgram, "done")
<1> DEFINE s == DisableProgram
<1>1. /\ Len(s) = 22 /\ s # <<>> /\ Head(s) = s[1]
      /\ s[1] = <<"mount", 0>> /\ s[2] = <<"clean", 0>> /\ s[3] = <<"finish", 1>>
      /\ s[4] = <<"finish", 2>> /\ s[5] = <<"migrate", 1>> /\ s[6] = <<"migrate", 2>>
      /\ s[7] = <<"flag", 0>> /\ s[8] = <<"disable", 1>> /\ s[9] = <<"disable", 2>>
      /\ s[10] = <<"clean", 0>> /\ s[11] = <<"finish", 1>> /\ s[12] = <<"finish", 2>>
      /\ s[13] = <<"migrate", 1>> /\ s[14] = <<"migrate", 2>> /\ s[15] = <<"flag", 0>>
      /\ s[16] = <<"clean", 0>> /\ s[17] = <<"finish", 1>> /\ s[18] = <<"finish", 2>>
      /\ s[19] = <<"migrate", 1>> /\ s[20] = <<"migrate", 2>> /\ s[21] = <<"flag", 0>>
      /\ s[22] = <<"setprop", 0>>
  BY DEF DisableProgram, Open
<1> HIDE DEF s
<1>2. ASSUME NEW k \in 1 .. 22
      PROVE  /\ s[k][1] \notin {"pack", "unpack", "drain", "lv", "undisable", "create"}
             /\ s[k][1] \notin {"switch", "done", "mark"}
             /\ s[k][1] = "mount" => k = 1
             /\ s[k][1] = "setprop" => k = 22
             /\ s[k][1] = "disable" => k \in {8, 9}
             /\ s[k][1] \in Changing => k < 21
  <2>1. CASE k \in 1 .. 5
    <3>1. k = 1 \/ k = 2 \/ k = 3 \/ k = 4 \/ k = 5
      BY <2>1
    <3>2. /\ s[1] = <<"mount", 0>> /\ s[2] = <<"clean", 0>> /\ s[3] = <<"finish", 1>>
          /\ s[4] = <<"finish", 2>> /\ s[5] = <<"migrate", 1>>
      BY <1>1
    <3> QED  BY <3>1, <3>2 DEF Changing
  <2>2. CASE k \in 6 .. 10
    <3>1. k = 6 \/ k = 7 \/ k = 8 \/ k = 9 \/ k = 10
      BY <2>2
    <3>2. /\ s[6] = <<"migrate", 2>> /\ s[7] = <<"flag", 0>> /\ s[8] = <<"disable", 1>>
          /\ s[9] = <<"disable", 2>> /\ s[10] = <<"clean", 0>>
      BY <1>1
    <3> QED  BY <3>1, <3>2 DEF Changing
  <2>3. CASE k \in 11 .. 15
    <3>1. k = 11 \/ k = 12 \/ k = 13 \/ k = 14 \/ k = 15
      BY <2>3
    <3>2. /\ s[11] = <<"finish", 1>> /\ s[12] = <<"finish", 2>> /\ s[13] = <<"migrate", 1>>
          /\ s[14] = <<"migrate", 2>> /\ s[15] = <<"flag", 0>>
      BY <1>1
    <3> QED  BY <3>1, <3>2 DEF Changing
  <2>4. CASE k \in 16 .. 20
    <3>1. k = 16 \/ k = 17 \/ k = 18 \/ k = 19 \/ k = 20
      BY <2>4
    <3>2. /\ s[16] = <<"clean", 0>> /\ s[17] = <<"finish", 1>> /\ s[18] = <<"finish", 2>>
          /\ s[19] = <<"migrate", 1>> /\ s[20] = <<"migrate", 2>>
      BY <1>1
    <3> QED  BY <3>1, <3>2 DEF Changing
  <2>5. CASE k \in 21 .. 22
    <3>1. k = 21 \/ k = 22
      BY <2>5
    <3>2. /\ s[21] = <<"flag", 0>> /\ s[22] = <<"setprop", 0>>
      BY <1>1
    <3> QED  BY <3>1, <3>2 DEF Changing
  <2>6. k \in 1 .. 5 \/ k \in 6 .. 10 \/ k \in 11 .. 15 \/ k \in 16 .. 20 \/ k \in 21 .. 22
    OBVIOUS
  <2> QED  BY <2>1, <2>2, <2>3, <2>4, <2>5, <2>6
<1>3. ~HasStep(s, "done") /\ HasStep(s, "clean")
  <2>1. 2 \in 1 .. Len(s) /\ s[2][1] = "clean" /\ Len(s) = 22
    BY <1>1
  <2> QED  BY <2>1, <1>2 DEF HasStep
<1>4. /\ \A i \in Systems : Before(s, 8, <<"migrate", i>>) /\ Before(s, 8, <<"finish", i>>)
  <2>1. /\ s[3] = <<"finish", 1>> /\ s[4] = <<"finish", 2>>
        /\ s[5] = <<"migrate", 1>> /\ s[6] = <<"migrate", 2>>
    BY <1>1
  <2>2. {3, 4, 5, 6} \subseteq 1 .. (8 - 1)
    OBVIOUS
  <2> QED  BY <2>1, <2>2 DEF Systems, Before
<1>5. /\ \A i \in Systems : Before(s, 9, <<"migrate", i>>) /\ Before(s, 9, <<"finish", i>>)
  <2>1. /\ s[3] = <<"finish", 1>> /\ s[4] = <<"finish", 2>>
        /\ s[5] = <<"migrate", 1>> /\ s[6] = <<"migrate", 2>>
    BY <1>1
  <2>2. {3, 4, 5, 6} \subseteq 1 .. (9 - 1)
    OBVIOUS
  <2> QED  BY <2>1, <2>2 DEF Systems, Before
<1>6. ASSUME NEW k \in 1 .. Len(s)
      PROVE  Placed(s, k) /\ Prepared(s, k, w, Systems, Systems, Systems, {0})
  <2>1. Placed(s, k)
    <3>1. k \in 1 .. 22
      BY <1>1
    <3>2. /\ s[k][1] \notin {"pack", "unpack", "drain", "lv", "undisable", "create"}
          /\ s[k][1] \notin {"switch", "done", "mark"}
          /\ s[k][1] = "mount" => k = 1
          /\ s[k][1] = "setprop" => k = 22
          /\ s[k][1] = "disable" => k \in {8, 9}
          /\ s[k][1] \in Changing => k < 21
      BY <3>1, <1>2
    <3>3. s[k][1] \in {"clean", "create", "disable", "setprop"} => NoneBefore(s, k, "setprop")
      <4> SUFFICES ASSUME s[k][1] \in {"clean", "create", "disable", "setprop"}, NEW j \in 1 .. (k - 1)
                   PROVE  s[j][1] # "setprop"
        BY DEF NoneBefore
      <4>1. k <= 22
        BY <3>1, <3>2
      <4>2. j \in 1 .. 22 /\ j # 22
        BY <4>1, <3>1
      <4> QED  BY <4>2, <1>2
    <3>4. Len(s) = 22 /\ s[21] = <<"flag", 0>> /\ s[22] = <<"setprop", 0>>
      BY <1>1
    <3> QED  BY <3>1, <3>2, <3>3, <3>4, <1>3 DEF Placed
  <2>2. CASE k = 8
    <3>1. s[8][1] = "disable" /\ s[8][2] = 1
      BY <1>1
    <3> QED  BY <2>1, <2>2, <3>1, <1>4 DEF Prepared
  <2>3. CASE k = 9
    <3>1. s[9][1] = "disable" /\ s[9][2] = 2
      BY <1>1
    <3> QED  BY <2>1, <2>3, <3>1, <1>5 DEF Prepared
  <2>4. CASE k # 8 /\ k # 9
    <3>1. s[k][1] \notin {"switch", "create", "disable"}
      BY <2>4, <1>1, <1>2
    <3> QED  BY <2>1, <3>1 DEF Prepared
  <2> QED  BY <2>2, <2>3, <2>4
<1>7. Early(s, w, Systems, Systems, Systems, {0})
  BY <1>6 DEF Early
<1>8. s # <<>> /\ Head(s)[1] # "mark"
  <2>1. s # <<>> /\ Head(s) = <<"mount", 0>>
    BY <1>1
  <2> QED  BY <2>1
<1> QED  BY <1>3, <1>7, <1>8 DEF s

\* The program of get.
LEMMA OpenIsEarly ==
    ASSUME NEW w \in Systems
    PROVE  /\ Early(Open, w, Systems, Systems, Systems, {0})
           /\ Open # <<>>
           /\ Head(Open)[1] # "mark"
           /\ ~HasStep(Open, "done")
           /\ ~HasStep(Open, "disable")
           /\ ~HasStep(Open, "setprop")
           /\ \A k \in 1 .. Len(Open) : Open[k][1] \in {"clean", "finish", "migrate", "flag"}
<1> DEFINE s == Open
<1>1. /\ Len(s) = 6 /\ s # <<>> /\ Head(s) = s[1]
      /\ s[1] = <<"clean", 0>> /\ s[2] = <<"finish", 1>> /\ s[3] = <<"finish", 2>>
      /\ s[4] = <<"migrate", 1>> /\ s[5] = <<"migrate", 2>> /\ s[6] = <<"flag", 0>>
  BY DEF Open
<1> HIDE DEF s
<1>2. \A k \in 1 .. 6 :
        /\ s[k][1] \notin {"pack", "unpack", "drain", "lv", "undisable", "disable"}
        /\ s[k][1] \notin {"create", "setprop", "switch", "done", "mark", "mount"}
        /\ s[k][1] \in Changing => k < 6
        /\ s[k][1] \in {"clean", "finish", "migrate", "flag"}
  BY <1>1 DEF Changing
<1>3. ~HasStep(s, "done") /\ ~HasStep(s, "disable") /\ ~HasStep(s, "setprop")
  BY <1>1, <1>2 DEF HasStep
<1>4. ASSUME NEW k \in 1 .. Len(s)
      PROVE  Placed(s, k) /\ Prepared(s, k, w, Systems, Systems, Systems, {0})
  <2>1. Placed(s, k)
    BY <1>1, <1>2, <1>3 DEF Placed, NoneBefore
  <2> QED  BY <2>1, <1>1, <1>2 DEF Prepared
<1>5. Early(s, w, Systems, Systems, Systems, {0})
  BY <1>4 DEF Early
<1>6. s # <<>> /\ Head(s)[1] # "mark"
  <2>1. s # <<>> /\ Head(s) = <<"clean", 0>>
    BY <1>1
  <2> QED  BY <2>1
<1> QED  BY <1>3, <1>1, <1>2, <1>5, <1>6 DEF s

\* A layout version is to be written before the rest of a program.
LEMMA EarlyPush ==
    ASSUME NEW t \in Seq(Steps), NEW m, NEW stale, NEW x \in Steps, x[1] = "lv", x[2] # Live,
           Early(t, m, {}, {}, {}, stale),
           \A op \in {"lv", "mark", "mount"} : ~HasStep(t, op),
           HasStep(t, "setprop")
    PROVE  /\ Early(<< x >> \o t, m, {}, {}, {}, stale)
           /\ << x >> \o t # <<>> /\ Head(<< x >> \o t) = x
           /\ \A op : HasStep(<< x >> \o t, op) <=> op = "lv" \/ HasStep(t, op)
<1> DEFINE s == << x >> \o t
<1>1. /\ s \in Seq(Steps) /\ Len(t) \in Nat /\ Len(s) = Len(t) + 1
      /\ \A k \in 1 .. Len(t) : s[k + 1] = t[k]
      /\ s[1] = x /\ Head(s) = x /\ s # <<>>
  OBVIOUS
<1> HIDE DEF s
<1>2. \A k \in 1 .. Len(s) : k # 1 => k - 1 \in 1 .. Len(t) /\ s[k] = t[k - 1]
  <2> SUFFICES ASSUME NEW k \in 1 .. Len(s), k # 1
               PROVE  k - 1 \in 1 .. Len(t) /\ s[k] = t[k - 1]
    OBVIOUS
  <2>1. k - 1 \in 1 .. Len(t) /\ (k - 1) + 1 = k
    BY <1>1
  <2> QED  BY <2>1, <1>1
<1>3. ASSUME NEW op PROVE HasStep(s, op) <=> op = "lv" \/ HasStep(t, op)
  <2>1. HasStep(s, op) => op = "lv" \/ HasStep(t, op)
    BY <1>1, <1>2 DEF HasStep
  <2>2. op = "lv" => HasStep(s, op)
    <3>1. 1 \in 1 .. Len(s)
      BY <1>1
    <3> QED  BY <3>1, <1>1 DEF HasStep
  <2>3. HasStep(t, op) => HasStep(s, op)
    <3>1. \A k \in 1 .. Len(t) : k + 1 \in 1 .. Len(s)
      BY <1>1
    <3> QED  BY <3>1, <1>1 DEF HasStep
  <2> QED  BY <2>1, <2>2, <2>3
<1>4. SUFFICES ASSUME NEW k \in 1 .. Len(s)
               PROVE  Placed(s, k) /\ Prepared(s, k, m, {}, {}, {}, stale)
  BY <1>1, <1>3 DEF Early, s
<1>5. CASE k = 1
  <2>1. s[k] = x
    BY <1>5, <1>1
  <2> QED  BY <2>1, <1>5 DEF Placed, Prepared
<1>6. CASE k # 1
  <2> DEFINE n == k - 1
  <2>1. /\ n \in 1 .. Len(t) /\ k = n + 1 /\ k - 1 = n /\ s[k] = t[n]
        /\ n = Len(t) => k = Len(s)
        /\ n = Len(t) - 1 => k = Len(s) - 1
    BY <1>6, <1>1, <1>2
  <2>2. s[Len(s)] = t[Len(t)]
    <3>1. Len(t) \in 1 .. Len(t) /\ Len(t) + 1 = Len(s)
      BY <1>1, <2>1
    <3> QED  BY <3>1, <1>1
  <2>3. n > 1 => s[k - 1] = t[n - 1] /\ k > 1
    <3>1. n > 1 => n \in 1 .. Len(s) /\ n # 1
      BY <2>1, <1>1
    <3> QED  BY <3>1, <2>1, <1>2
  <2> HIDE DEF n
  <2>4. Placed(t, n) /\ Prepared(t, n, m, {}, {}, {}, stale)
    BY <2>1 DEF Early
  <2>5. t[n][1] \notin {"lv", "mark", "mount"}
    BY <2>1 DEF HasStep
  <2>6. \A j \in 1 .. (k - 1) : j # 1 => j - 1 \in 1 .. (n - 1) /\ s[j] = t[j - 1]
    <3> SUFFICES ASSUME NEW j \in 1 .. (k - 1), j # 1
                 PROVE  j - 1 \in 1 .. (n - 1) /\ s[j] = t[j - 1]
      OBVIOUS
    <3>1. j - 1 \in 1 .. (n - 1) /\ j \in 1 .. Len(s)
      BY <2>1, <1>1
    <3> QED  BY <3>1, <1>2
  <2>7. \A op : op # "lv" /\ NoneBefore(t, n, op) => NoneBefore(s, k, op)
    BY <2>6, <1>1 DEF NoneBefore
  <2>8. \A j \in 1 .. (n - 1) : j + 1 \in 1 .. (k - 1) /\ s[j + 1] = t[j]
    BY <2>1, <1>1
  <2>9. \A y : Before(t, n, y) => Before(s, k, y)
    BY <2>8 DEF Before
  <2>10. Refreshed(t, n) => Refreshed(s, k)
    <3> SUFFICES ASSUME Refreshed(t, n), NEW j \in 1 .. (k - 1), s[j][1] \in Changing
                 PROVE  \E l \in (j + 1) .. (k - 1) : s[l] = <<"flag", 0>>
      BY DEF Refreshed
    <3>1. j # 1
      BY <1>1 DEF Changing
    <3>2. PICK l \in ((j - 1) + 1) .. (n - 1) : t[l] = <<"flag", 0>>
      BY <3>1, <2>6 DEF Refreshed
    <3>3. l \in 1 .. (n - 1) /\ l + 1 \in (j + 1) .. (k - 1)
      BY <2>1
    <3> QED  BY <3>2, <3>3, <2>8
  <2>11. Placed(s, k)
    <3>1. t[n][1] \in {"clean", "create", "disable", "setprop"} => NoneBefore(s, k, "setprop")
      BY <2>4, <2>7 DEF Placed
    <3>2. (HasStep(s, "done") <=> HasStep(t, "done")) /\ HasStep(s, "setprop")
      BY <1>3
    <3> QED  BY <3>1, <3>2, <2>1, <2>2, <2>3, <2>4, <2>5 DEF Placed
  <2>12. Prepared(s, k, m, {}, {}, {}, stale)
    BY <2>1, <2>4, <2>7, <2>9, <2>10 DEF Prepared
  <2> QED  BY <2>11, <2>12
<1> QED  BY <1>5, <1>6

-----------------------------------------------------------------------------
(* Steps before the switch. *)

\* What a step that comes next may rely on.
LEMMA HeadEarly ==
    ASSUME ProgramFits, EarlyPhase, NEW op, At(op)
    PROVE  /\ op \notin {"pack", "unpack", "drain", "done"}
           /\ op = "lv" => Arg # Live
           /\ op = "switch" => Len(todo) = 2 /\ todo[2] = <<"done", 0>>
           /\ op \in {"switch", "create", "disable"} => LegacyOf = {} /\ MovingOf = {}
           /\ op \in {"switch", "create"} => Arg = which /\ StaleOf = {}
           /\ op = "create" => OffOf = {} /\ HasStep(todo, "setprop")
           /\ op \in {"mark", "mount"} => HasStep(todo, "clean")
           /\ op \in {"mark", "undisable", "create", "switch"} => HasStep(todo, "done")
           /\ op = "disable" => ~HasStep(todo, "done")
<1>1. todo \in Seq(Steps) /\ todo # <<>> /\ Head(todo) = <<op, Arg>>
  BY Argument
<1>2. /\ 1 \in 1 .. Len(todo) /\ todo[1] = <<op, Arg>> /\ 1 .. (1 - 1) = {}
      /\ Len(todo) \in Nat
  BY <1>1
<1>3. Placed(todo, 1) /\ Prepared(todo, 1, which, LegacyOf, MovingOf, OffOf, StaleOf)
  BY <1>2 DEF EarlyPhase, Early
<1>4. \A x : ~Before(todo, 1, x)
  BY <1>2 DEF Before
<1>5. todo[1][1] = op /\ todo[1][2] = Arg
  BY <1>2
<1>7. /\ op \notin {"pack", "unpack", "drain", "done"}
      /\ op = "lv" => Arg # Live
      /\ op = "switch" => Len(todo) = 2 /\ todo[2] = <<"done", 0>>
      /\ op \in {"mark", "undisable", "create", "switch"} => HasStep(todo, "done")
      /\ op = "disable" => ~HasStep(todo, "done")
      /\ op = "create" => HasStep(todo, "setprop")
      /\ op \in {"mark", "mount"} => HasStep(todo, "clean")
  BY <1>2, <1>3, <1>5 DEF Placed
<1>8. /\ op \in {"switch", "create", "disable"} => LegacyOf = {} /\ MovingOf = {}
      /\ op \in {"switch", "create"} => Arg = which /\ StaleOf = {}
      /\ op = "create" => OffOf = {}
  BY <1>3, <1>4, <1>5 DEF Prepared
<1> QED  BY <1>7, <1>8

\* What a step before the switch changes, besides directories.
EarlyFrame ==
    /\ power # "off" /\ todo # <<>> /\ todo' = Tail(todo) /\ Head(todo)[1] # "switch"
    /\ mark' = IF Head(todo)[1] = "mark" THEN Head(todo)[2] ELSE mark
    /\ UNCHANGED <<power, which, harm>>
    /\ dualprop' = dualprop \/ Head(todo)[1] = "setprop"

\* What it may change in the directories.
EarlyChange ==
    /\ \A i \in LegacyOf' : i \in LegacyOf /\ Head(todo) # <<"migrate", i>>
    /\ \A i \in MovingOf' : i \in MovingOf /\ Head(todo) # <<"finish", i>>
    /\ \A i \in OffOf' : \/ Head(todo)[1] = "disable"
                         \/ i \in OffOf /\ Head(todo) # <<"undisable", i>>
    /\ \/ StaleOf' = {} \/ Head(todo)[1] \in Changing
       \/ StaleOf' = StaleOf /\ Head(todo) # <<"flag", 0>>

\* A program without a switch leaves the data where it is.
KeepsTidy ==
    Head(todo)[1] \notin {"undisable", "create"} /\ Tidy =>
        Tidy' /\ SealedOf' \subseteq SealedOf \cup LegacyOf

\* What every step before the switch keeps, once it is known to change what it may.
LEMMA EarlyStep ==
    ASSUME ProgramFits, mark \in Systems, EarlyPhase, Settled, PropTells, Callers,
           EarlyFrame, EarlyChange, KeepsTidy
    PROVE  EarlyPhase' /\ Settled' /\ PropTells' /\ Callers'
<1>1. /\ todo \in Seq(Steps) /\ todo # <<>> /\ todo' = Tail(todo) /\ Head(todo)[1] # "switch"
  BY DEF ProgramFits, EarlyFrame
<1>2. /\ todo' \in Seq(Steps) /\ Len(todo) \in Nat \ {0} /\ Len(todo') = Len(todo) - 1
      /\ \A k \in 1 .. Len(todo') : todo'[k] = todo[k + 1]
      /\ Head(todo) = todo[1]
  BY <1>1, TailFacts
<1>3. /\ \A op : HasStep(todo', op) => HasStep(todo, op)
      /\ \A op : HasStep(todo, op) /\ Head(todo)[1] # op => HasStep(todo', op)
  BY <1>1, TailSteps
<1>4. \A k \in 1 .. Len(todo) : /\ Placed(todo, k)
                                /\ todo[k][1] = "mark" => k = 1
                                /\ todo[k][1] = "mount" => k = 1 \/ (k = 2 /\ todo[1][1] = "mark")
  BY DEF EarlyPhase, Early, Placed
<1>5. Placed(todo, 1) /\ Head(todo)[1] # "done"
  <2>1. 1 \in 1 .. Len(todo)
    BY <1>2
  <2> QED  BY <2>1, <1>4, <1>2 DEF Placed
<1>6. Target' = Target
  <2>1. ~(todo' # <<>> /\ Head(todo')[1] = "mark")
    <3> SUFFICES ASSUME todo' # <<>>, Head(todo')[1] = "mark" PROVE FALSE
      OBVIOUS
    <3>1. Head(todo') = todo'[1] /\ 1 \in 1 .. Len(todo') /\ 1 + 1 = 2
      BY <1>2
    <3>2. todo'[1] = todo[2] /\ 2 \in 1 .. Len(todo)
      BY <3>1, <1>2
    <3> QED  BY <3>1, <3>2, <1>4
  <2> QED  BY <2>1, <1>1 DEF Target, EarlyFrame
<1>7. EarlyPhase'
  <2>1. \A i \in StaleOf' : i = 0
    BY DEF StaleOf
  <2>2. Advanced(todo, LegacyOf, MovingOf, OffOf, StaleOf, LegacyOf', MovingOf', OffOf', StaleOf')
    BY <1>1, <2>1 DEF Advanced, EarlyChange
  <2>3. Early(Tail(todo), which, LegacyOf', MovingOf', OffOf', StaleOf')
    BY <2>2, EarlyPop DEF EarlyPhase
  <2>4. which' = which
    BY DEF EarlyFrame
  <2> QED  BY <2>3, <2>4, <1>1 DEF EarlyPhase
<1>8. HasStep(todo', "clean") /\ HasStep(todo, "done") =>
          Head(todo)[1] \in {"mark", "mount"} \/ (~dualprop /\ Head(todo)[1] # "setprop")
  <2> SUFFICES ASSUME NEW k \in 1 .. Len(todo'), todo'[k][1] = "clean", HasStep(todo, "done")
               PROVE  Head(todo)[1] \in {"mark", "mount"} \/ (~dualprop /\ Head(todo)[1] # "setprop")
    BY DEF HasStep
  <2>1. /\ k + 1 \in 1 .. Len(todo) /\ todo[k + 1] = todo'[k]
        /\ 1 \in 1 .. ((k + 1) - 1)
    BY <1>2
  <2>2. /\ NoneBefore(todo, k + 1, "setprop")
        /\ HasStep(todo, "setprop") \/ AtBeginning(todo, k + 1)
    BY <2>1, <1>4 DEF Placed
  <2>3. Head(todo)[1] # "setprop"
    BY <2>1, <2>2, <1>2 DEF NoneBefore
  <2>4. CASE HasStep(todo, "setprop")
    BY <2>3, <2>4 DEF Callers
  <2>5. CASE AtBeginning(todo, k + 1)
    BY <2>1, <2>5, <1>2 DEF AtBeginning
  <2> QED  BY <2>2, <2>4, <2>5
<1>9. /\ HasStep(todo', "done") <=> HasStep(todo, "done")
      /\ Head(todo)[1] \in {"mark", "undisable", "create"} => HasStep(todo, "done")
  BY <1>2, <1>3, <1>5 DEF Placed
<1>10. Head(todo)[1] = "setprop" => ~HasStep(todo', "setprop") /\ ~HasStep(todo', "disable")
  <2> SUFFICES ASSUME Head(todo)[1] = "setprop", NEW k \in 1 .. Len(todo'),
                      todo'[k][1] \in {"setprop", "disable"}
               PROVE  FALSE
    BY DEF HasStep
  <2>1. k + 1 \in 1 .. Len(todo) /\ todo[k + 1] = todo'[k] /\ 1 \in 1 .. ((k + 1) - 1)
    BY <1>2
  <2>2. NoneBefore(todo, k + 1, "setprop")
    BY <2>1, <1>4 DEF Placed
  <2> QED  BY <2>1, <2>2, <1>2 DEF NoneBefore
<1>11. Settled'
  <2> SUFFICES ASSUME harm' = "none", ~HasStep(todo', "done")
               PROVE  Tidy' /\ mark' \notin SealedOf' /\ LegacyOf' \subseteq {Other(mark')}
    BY DEF Settled
  <2>1. /\ harm = "none" /\ ~HasStep(todo, "done")
        /\ Head(todo)[1] \notin {"mark", "undisable", "create"}
    BY <1>9 DEF EarlyFrame
  <2>2. Tidy /\ mark \notin SealedOf /\ LegacyOf \subseteq {Other(mark)} /\ mark' = mark
    BY <2>1 DEF Settled, EarlyFrame
  <2>3. Tidy' /\ SealedOf' \subseteq SealedOf \cup LegacyOf /\ LegacyOf' \subseteq LegacyOf
    BY <2>1, <2>2 DEF KeepsTidy, EarlyChange
  <2>4. mark # Other(mark)
    BY DEF Systems, Other
  <2> QED  BY <2>2, <2>3, <2>4
<1>12. PropTells'
  <2> SUFFICES ASSUME dualprop', HasStep(todo', "done") => HasStep(todo', "clean")
               PROVE  Tidy'
    BY DEF PropTells
  <2>1. CASE HasStep(todo, "done")
    <3>1. HasStep(todo', "clean") /\ HasStep(todo, "clean")
      BY <2>1, <1>3, <1>9
    <3>2. dualprop /\ Head(todo)[1] \in {"mark", "mount"}
      BY <2>1, <3>1, <1>8 DEF EarlyFrame
    <3>3. Tidy
      BY <3>1, <3>2 DEF PropTells
    <3> QED  BY <3>2, <3>3 DEF KeepsTidy
  <2>2. CASE ~HasStep(todo, "done")
    <3>1. ~HasStep(todo, "done")
      BY <2>2
    <3>2. dualprop
      <4>1. CASE Head(todo)[1] = "setprop"
        <5>1. HasStep(todo, "setprop")
          <6>1. 1 \in 1 .. Len(todo)
            BY <1>2
          <6> QED  BY <6>1, <4>1, <1>2 DEF HasStep
        <5> QED  BY <5>1, <3>1 DEF Callers
      <4> QED  BY <4>1 DEF EarlyFrame
    <3>3. Tidy
      BY <3>1, <3>2 DEF PropTells
    <3> QED  BY <3>1, <3>3, <1>9 DEF KeepsTidy
  <2> QED  BY <2>1, <2>2
<1>13. Callers'
  <2>1. /\ power' = "recovery" /\ harm' = "none" => which' = Target'
        /\ power' = "android" => harm' = "none"
    BY <1>6 DEF Callers, EarlyFrame
  <2>5. power' \in {"off", "android"} => ~dualprop'
    <3>1. power = "android" => Head(todo)[1] # "setprop"
      <4>1. 1 \in 1 .. Len(todo)
        BY <1>2
      <4> QED  BY <4>1, <1>2 DEF Callers
    <3> QED  BY <3>1 DEF Callers, EarlyFrame
  <2>2. power' = "android" =>
            \A k \in 1 .. Len(todo') : todo'[k][1] \in {"clean", "finish", "migrate", "flag"}
    <3>1. \A k \in 1 .. Len(todo') : k + 1 \in 1 .. Len(todo)
      BY <1>2
    <3> QED  BY <3>1, <1>2 DEF Callers, EarlyFrame
  <2>3. HasStep(todo', "disable") => dualprop'
    BY <1>3, <1>10 DEF Callers, EarlyFrame
  <2>4. HasStep(todo', "setprop") => (dualprop' <=> ~HasStep(todo', "done"))
    BY <1>3, <1>9, <1>10 DEF Callers, EarlyFrame
  <2> QED  BY <2>1, <2>2, <2>3, <2>4, <2>5 DEF Callers
<1> QED  BY <1>7, <1>11, <1>12, <1>13

-----------------------------------------------------------------------------
(* Data sets. *)

DirSets == <<LegacyOf, MovingOf, SealedOf, OffOf>>

\* The same directories exist.
LEMMA SameDirSets ==
    ASSUME \A d \in Dirs : Exists(d)' <=> Exists(d)
    PROVE  UNCHANGED DirSets
<1>1. \A i \in Systems : /\ Exists(Sealed(i))' <=> Exists(Sealed(i))
                         /\ Exists(Tmp(i))' <=> Exists(Tmp(i))
                         /\ Exists(Off(i))' <=> Exists(Off(i))
                         /\ Exists(Legacy(i))' <=> Exists(Legacy(i))
  BY DirNames
<1> QED  BY <1>1 DEF DirSets, LegacyOf, MovingOf, SealedOf, OffOf

\* Nothing happens to the directories.
LEMMA SameData ==
    ASSUME fs' = fs
    PROVE  /\ UNCHANGED DirSets /\ fs'[Live] = fs[Live]
           /\ Tidy' <=> Tidy
           /\ Alone' <=> Alone
           /\ SetsAreWhole' <=> SetsAreWhole
<1>1. \A d \in Dirs : Exists(d)' <=> Exists(d)
  BY DEF Exists
<1>2. UNCHANGED DirSets
  BY <1>1, SameDirSets
<1>3. Active' = Active
  BY <1>2 DEF Active, DirSets
<1>4. SetsAreWhole' <=> SetsAreWhole
  BY <1>3 DEF SetsAreWhole, Exists
<1> QED  BY <1>2, <1>4 DEF Tidy, Alone, DirSets

\* A layout version does not matter.
LEMMA WholeFacts ==
    /\ Whole({})
    /\ \A S : Whole(S) => Whole(S \cup {LayoutVersion})
<1>1. ASSUME NEW S, Whole(S) PROVE Whole(S \cup {LayoutVersion})
  <2>1. (S \cup {LayoutVersion}) \ {LayoutVersion} = S \ {LayoutVersion}
    OBVIOUS
  <2> QED  BY <2>1, <1>1 DEF Whole
<1> QED  BY <1>1 DEF Whole

\* What a directory that exists holds.
LEMMA Holds ==
    ASSUME Core, NEW p \in Dirs, Exists(p)
    PROVE  /\ fs[p] \subseteq created \cup {LayoutVersion}
           /\ fs[p] \subseteq UserEntries \cup {LayoutVersion}
BY DEF Core, DataOK, EntriesAreKnown

\* Between the live data and what is being moved there are no two entries of one
\* name: a mv leaves nothing behind.
LEMMA NothingLeft ==
    ASSUME Core, SetsAreWhole, NEW i \in MovingOf,
           NEW p \in {Live, Tmp(i)}, NEW q \in {Live, Tmp(i)}, p # q, Movable(p, q) = {}
    PROVE  fs[p] = {}
<1>1. /\ p \in Dirs /\ q \in Dirs /\ Exists(p) /\ Exists(q) /\ i \in Systems
  BY DirNames DEF Core, DirsOK, MovingOf
<1>2. /\ fs[p] \subseteq created \cup {LayoutVersion}
      /\ fs[p] \subseteq UserEntries \cup {LayoutVersion}
      /\ fs[q] \subseteq created \cup {LayoutVersion}
      /\ fs[q] \subseteq UserEntries \cup {LayoutVersion}
  BY <1>1, Holds
<1>3. fs[p] \subseteq Active /\ fs[q] \subseteq Active
  BY <1>2 DEF Active
<1>4. /\ LayoutVersion \notin fs[p]
      /\ \A e \in fs[p] : e # LayoutVersion => \E f \in fs[q] : f.name = e.name
  <2> DEFINE dirs == {e \in fs[p] : e # LayoutVersion /\ \A f \in fs[q] : f.name # e.name}
  <2>1. dirs = {}
    BY DEF Movable
  <2>2. fs[p] \cap {LayoutVersion} = {}
    BY <2>1 DEF Movable
  <2> QED  BY <2>1, <2>2
<1>5. SUFFICES ASSUME NEW e \in fs[p] PROVE FALSE
  OBVIOUS
<1>6. e # LayoutVersion /\ e \in created /\ e \in UserEntries
  BY <1>2, <1>4
<1>7. PICK f \in fs[q] : f.name = e.name
  BY <1>4, <1>6
<1>8. f # LayoutVersion
  <2>1. e.name \in Names
    BY <1>6 DEF UserEntries, Batch
  <2>2. LayoutVersion.name = ".layout_version"
    BY DEF LayoutVersion
  <2> QED  BY <2>1, <2>2, <1>7, DualAssumption
<1>9. PICK b \in 0 .. MaxBatch : Active \ {LayoutVersion} = Batch(b)
  <2>1. e \in Active
    BY <1>3
  <2> QED  BY <2>1, <1>6 DEF SetsAreWhole, Whole
<1>10. e = f
  <2>1. e \in Batch(b) /\ f \in Batch(b)
    BY <1>3, <1>6, <1>8, <1>9
  <2>2. e = [name |-> e.name, batch |-> b] /\ f = [name |-> f.name, batch |-> b]
    BY <2>1 DEF Batch
  <2> QED  BY <2>2, <1>7
<1> QED  BY <1>1, <1>6, <1>7, <1>10 DEF Core, DataOK, OnePlace

\* An entry moves between the live data and what is being moved.
LEMMA MoveWhole ==
    ASSUME Core, SetsAreWhole, NEW i \in MovingOf,
           NEW p \in {Live, Tmp(i)}, NEW q \in {Live, Tmp(i)}, p # q, Move(p, q)
    PROVE  /\ UNCHANGED DirSets /\ SetsAreWhole'
           /\ p = Live => fs'[Live] \subseteq fs[Live]
<1>1. /\ p \in Dirs /\ q \in Dirs /\ Exists(p) /\ Exists(q) /\ i \in Systems
  BY DirNames DEF Core, DirsOK, MovingOf
<1>2. PICK e \in Movable(p, q) : fs' = [fs EXCEPT ![p] = @ \ {e}, ![q] = @ \cup {e}]
  BY DEF Move
<1>3. e \in fs[p]
  BY DEF Movable
<1>4. /\ fs'[p] = fs[p] \ {e} /\ fs'[q] = fs[q] \cup {e}
      /\ \A d \in Dirs : d \notin {p, q} => fs'[d] = fs[d]
  BY <1>1, <1>2 DEF Core, DirsOK
<1>5. /\ fs[p] \subseteq UserEntries \cup {LayoutVersion}
      /\ fs[q] \subseteq UserEntries \cup {LayoutVersion}
  BY <1>1, Holds
<1>6. \A d \in Dirs : Exists(d)' <=> Exists(d)
  <2>1. fs'[p] # NoDir /\ fs'[q] # NoDir
    BY <1>3, <1>4, <1>5, Distinct
  <2> QED  BY <2>1, <1>1, <1>4 DEF Exists
<1>7. UNCHANGED DirSets
  BY <1>6, SameDirSets
<1>8. \A x : (x \in fs'[p] \/ x \in fs'[q]) <=> (x \in fs[p] \/ x \in fs[q])
  BY <1>3, <1>4
<1>9. \A j \in Systems : j # i => fs'[Tmp(j)] = fs[Tmp(j)]
  BY <1>1, <1>4, DirNames
<1>10. Active' = Active
  <2>1. MovingOf' = MovingOf /\ MovingOf \subseteq Systems
    BY <1>7 DEF DirSets, MovingOf
  <2>2. ASSUME NEW x
        PROVE  (x \in fs'[Live] \/ \E j \in MovingOf : x \in fs'[Tmp(j)])
                <=> (x \in fs[Live] \/ \E j \in MovingOf : x \in fs[Tmp(j)])
    <3>1. (x \in fs'[Live] \/ x \in fs'[Tmp(i)]) <=> (x \in fs[Live] \/ x \in fs[Tmp(i)])
      BY <1>8
    <3> QED  BY <3>1, <1>9, <2>1
  <2> QED  BY <2>1, <2>2 DEF Active
<1>11. SetsAreWhole'
  <2>1. \A j \in Systems : \A d \in {Sealed(j), Off(j), Legacy(j)} :
            fs'[d] = fs[d] /\ (Exists(d)' <=> Exists(d))
    BY <1>1, <1>4, <1>6, DirNames
  <2> QED  BY <2>1, <1>10 DEF SetsAreWhole, Exists
<1> QED  BY <1>4, <1>7, <1>11

\* A directory other than /data gets another name.
Renamed(p, q) ==
    /\ p \in Dirs \ {Live} /\ q \in Dirs \ {Live} /\ p # q
    /\ fs[p] # NoDir /\ fs[q] = NoDir
    /\ fs'[p] = NoDir /\ fs'[q] = fs[p]
    /\ \A d \in Dirs : d \notin {p, q} => fs'[d] = fs[d]

\* A mv of a directory to a name that is free.
LEMMA RenameIs ==
    ASSUME Core, NEW p \in Dirs \ {Live}, NEW q \in Dirs \ {Live}, p # q,
           Exists(p), ~Exists(q), Rename(p, q)
    PROVE  Renamed(p, q) /\ fs'[Live] = fs[Live]
<1>1. fs' = [fs EXCEPT ![p] = NoDir, ![q] = fs[p]]
  BY DEF Rename
<1> QED  BY <1>1, DirNames DEF Renamed, Exists, Core, DirsOK

-----------------------------------------------------------------------------
(* The steps before the switch, one kind at a time. *)

\* What they may rely on, and what they keep.
Sound ==
    /\ Core /\ mark \in Systems /\ which \in Systems
    /\ power \in {"off", "recovery", "android"}
    /\ Alone /\ SetsAreWhole /\ Settled /\ PropTells /\ Callers

KeptEarly == EarlyPhase /\ Alone /\ SetsAreWhole /\ Settled /\ PropTells /\ Callers

KeptLate == LatePhase /\ Alone /\ SetsAreWhole /\ Settled /\ PropTells /\ Callers

\* A step of the kind op is done, and fs and enabled are all it changed besides.
Ran(op) == At(op) /\ Pop /\ UNCHANGED <<mark, power, which, dualprop, harm>>

\* It changes nothing else than a step before the switch may.
LEMMA RanFrame ==
    ASSUME Core, NEW op, Ran(op), op \notin {"switch", "mark"}
    PROVE  EarlyFrame /\ Head(todo) = <<op, Arg>> /\ todo \in Seq(Steps)
<1>1. todo \in Seq(Steps) /\ todo # <<>> /\ Head(todo) = <<op, Arg>>
  BY Argument DEF Core, Ran
<1> QED  BY <1>1 DEF EarlyFrame, Ran, Pop, At

\* Nothing moves.
LEMMA EarlyQuiet ==
    ASSUME Sound, EarlyPhase, EarlyFrame, fs' = fs,
           \A i \in LegacyOf : Head(todo) # <<"migrate", i>>,
           \A i \in MovingOf : Head(todo) # <<"finish", i>>,
           \A i \in OffOf : Head(todo) # <<"undisable", i>>,
           StaleOf' = {} \/ (enabled' = enabled /\ Head(todo) # <<"flag", 0>>)
    PROVE  KeptEarly'
<1>1. UNCHANGED DirSets /\ fs'[Live] = fs[Live] /\ (Tidy => Tidy') /\ Alone' /\ SetsAreWhole'
  BY SameData DEF Sound
<1>2. UNCHANGED <<LegacyOf, MovingOf, SealedOf, OffOf>>
  BY <1>1 DEF DirSets
<1>3. StaleOf' = {} \/ (StaleOf' = StaleOf /\ Head(todo) # <<"flag", 0>>)
  BY <1>2 DEF StaleOf
<1>4. EarlyChange
  BY <1>2, <1>3 DEF EarlyChange
<1>5. KeepsTidy
  BY <1>1, <1>2 DEF KeepsTidy
<1>6. EarlyPhase' /\ Settled' /\ PropTells' /\ Callers'
  BY <1>4, <1>5, EarlyStep DEF Sound, Core
<1> QED  BY <1>1, <1>6 DEF KeptEarly

\* The steps that do not touch the directories.
LEMMA EarlyQuietSteps ==
    ASSUME Sound, EarlyPhase, WriteMark \/ Mount \/ FinishNothing \/ Flag \/ SetProp
    PROVE  KeptEarly'
<1>1. CASE WriteMark
  <2>1. todo \in Seq(Steps) /\ todo # <<>> /\ Head(todo) = <<"mark", Arg>>
    BY <1>1, Argument DEF WriteMark, Sound, Core
  <2>2. EarlyFrame /\ fs' = fs /\ enabled' = enabled
    BY <1>1, <2>1 DEF EarlyFrame, WriteMark, Pop, At
  <2> QED  BY <2>1, <2>2, EarlyQuiet
<1>2. CASE Mount
  <2>1. Ran("mount") /\ fs' = fs /\ enabled' = enabled
    BY <1>2 DEF Ran, Mount
  <2>2. EarlyFrame /\ Head(todo) = <<"mount", Arg>>
    BY <2>1, RanFrame DEF Sound
  <2> QED  BY <2>1, <2>2, EarlyQuiet
<1>3. CASE FinishNothing
  <2>1. Ran("finish") /\ fs' = fs /\ enabled' = enabled /\ ~Exists(Tmp(Arg))
    BY <1>3 DEF Ran, FinishNothing
  <2>2. EarlyFrame /\ Head(todo) = <<"finish", Arg>>
    BY <2>1, RanFrame DEF Sound
  <2>3. \A i \in MovingOf : Head(todo) # <<"finish", i>>
    BY <2>1, <2>2 DEF MovingOf
  <2> QED  BY <2>1, <2>2, <2>3, EarlyQuiet
<1>4. CASE Flag
  <2>1. Ran("flag") /\ fs' = fs /\ enabled' = (\E i \in Systems : Exists(Sealed(i)))
    BY <1>4 DEF Ran, Flag
  <2>2. EarlyFrame /\ Head(todo) = <<"flag", Arg>>
    BY <2>1, RanFrame DEF Sound
  <2>3. SealedOf' = SealedOf
    BY <2>1, SameData DEF DirSets
  <2>4. enabled' <=> SealedOf # {}
    BY <2>1 DEF SealedOf
  <2>5. StaleOf' = {}
    BY <2>3, <2>4 DEF StaleOf
  <2> QED  BY <2>1, <2>2, <2>5, EarlyQuiet
<1>5. CASE SetProp
  <2>1. todo \in Seq(Steps) /\ todo # <<>> /\ Head(todo) = <<"setprop", Arg>>
    BY <1>5, Argument DEF SetProp, Sound, Core
  <2>2. EarlyFrame /\ fs' = fs /\ enabled' = enabled
    BY <1>5, <2>1 DEF EarlyFrame, SetProp, Pop, At
  <2> QED  BY <2>1, <2>2, EarlyQuiet
<1> QED  BY <1>1, <1>2, <1>3, <1>4, <1>5

\* A sealed directory, or one of older versions, is removed.
LEMMA EarlyShrink ==
    ASSUME Sound, EarlyPhase, EarlyFrame, Head(todo)[1] \in {"clean", "migrate"},
           \A d \in Dirs : \/ fs'[d] = fs[d]
                           \/ fs'[d] = NoDir /\ \E i \in Systems : d \in {Sealed(i), Legacy(i)},
           \A i \in LegacyOf' : Head(todo) # <<"migrate", i>>
    PROVE  KeptEarly'
<1>1. /\ fs'[Live] = fs[Live]
      /\ \A i \in Systems : /\ fs'[Tmp(i)] = fs[Tmp(i)] /\ fs'[Off(i)] = fs[Off(i)]
                            /\ fs'[Sealed(i)] \in {fs[Sealed(i)], NoDir}
                            /\ fs'[Legacy(i)] \in {fs[Legacy(i)], NoDir}
  <2>1. fs'[Live] = fs[Live]
    BY DirNames
  <2>2. \A i \in Systems : fs'[Tmp(i)] = fs[Tmp(i)] /\ fs'[Off(i)] = fs[Off(i)]
    BY DirNames
  <2>3. \A i \in Systems : /\ fs'[Sealed(i)] \in {fs[Sealed(i)], NoDir}
                           /\ fs'[Legacy(i)] \in {fs[Legacy(i)], NoDir}
    BY DirNames
  <2> QED  BY <2>1, <2>2, <2>3
<1>2. /\ LegacyOf' \subseteq LegacyOf /\ SealedOf' \subseteq SealedOf
      /\ MovingOf' = MovingOf /\ OffOf' = OffOf /\ SealedOf \subseteq Systems
  BY <1>1 DEF LegacyOf, SealedOf, MovingOf, OffOf, Exists
<1>3. Alone'
  <2>1. Alone  BY DEF Sound
  <2>2. \A i \in MovingOf' : MovingOf' = {i} /\ OffOf' = {}  BY <1>2, <2>1 DEF Alone
  <2>3. \A i \in LegacyOf' : LegacyOf' = {i} /\ SealedOf' \subseteq {i} /\ OffOf' = {}
    BY <1>2, <2>1 DEF Alone
  <2>4. \A i \in OffOf' : OffOf' = {i} /\ SealedOf' = {}  BY <1>2, <2>1 DEF Alone
  <2>5. LegacyOf' \cup OffOf' # {} => LayoutVersion \in fs'[Live]
    BY <1>1, <1>2, <2>1 DEF Alone
  <2>6. SealedOf' = Systems => fs'[Live] = {}  BY <1>1, <1>2, <2>1 DEF Alone
  <2> QED  BY <2>2, <2>3, <2>4, <2>5, <2>6 DEF Alone
<1>4. SetsAreWhole'
  <2>1. Active' = Active
    BY <1>1, <1>2 DEF Active, MovingOf
  <2>2. \A i \in Systems : \A p \in {Sealed(i), Off(i), Legacy(i)} :
            fs'[p] # NoDir => fs[p] # NoDir /\ fs'[p] = fs[p]
    BY <1>1
  <2> QED  BY <2>1, <2>2 DEF SetsAreWhole, Sound, Exists
<1>5. KeepsTidy
  BY <1>1, <1>2 DEF KeepsTidy, Tidy
<1>6. EarlyChange
  BY <1>2 DEF EarlyChange, Changing
<1>7. EarlyPhase' /\ Settled' /\ PropTells' /\ Callers'
  BY <1>5, <1>6, EarlyStep DEF Sound, Core
<1> QED  BY <1>3, <1>4, <1>7 DEF KeptEarly

\* dualdata_open removes empty directories.
LEMMA EarlyClean ==
    ASSUME Sound, EarlyPhase, Clean
    PROVE  KeptEarly'
<1>1. Ran("clean")
  BY DEF Ran, Clean
<1>2. EarlyFrame /\ Head(todo) = <<"clean", Arg>>
  BY <1>1, RanFrame DEF Sound
<1>3. \A d \in Dirs : \/ fs'[d] = fs[d]
                      \/ fs'[d] = NoDir /\ \E i \in Systems : d \in {Sealed(i), Legacy(i)}
  BY DEF Clean, Dirs, Sealed, Legacy, Live
<1> QED  BY <1>2, <1>3, EarlyShrink

\* The systems whose directories of a kind exist when one is renamed.
LEMMA RenamedSets ==
    ASSUME NEW a \in Systems, NEW p \in {Sealed(a), Tmp(a), Off(a), Legacy(a)},
           NEW q \in {Sealed(a), Tmp(a), Off(a)}, Renamed(p, q)
    PROVE  /\ LegacyOf' = IF p = Legacy(a) THEN LegacyOf \ {a} ELSE LegacyOf
           /\ SealedOf' = IF p = Sealed(a) THEN SealedOf \ {a}
                          ELSE IF q = Sealed(a) THEN SealedOf \cup {a} ELSE SealedOf
           /\ MovingOf' = IF p = Tmp(a) THEN MovingOf \ {a}
                          ELSE IF q = Tmp(a) THEN MovingOf \cup {a} ELSE MovingOf
           /\ OffOf' = IF p = Off(a) THEN OffOf \ {a}
                       ELSE IF q = Off(a) THEN OffOf \cup {a} ELSE OffOf
           /\ fs'[Live] = fs[Live]
<1>1. /\ p # q /\ fs'[p] = NoDir /\ fs'[q] # NoDir
      /\ \A d \in Dirs : d \notin {p, q} => fs'[d] = fs[d]
  BY DEF Renamed
<1>2. \A i, j \in Systems : i # j => Off(i) # Off(j)
  BY DEF Off
<1>3. \A i \in Systems : i # a =>
        /\ fs'[Legacy(i)] = fs[Legacy(i)] /\ fs'[Sealed(i)] = fs[Sealed(i)]
        /\ fs'[Tmp(i)] = fs[Tmp(i)] /\ fs'[Off(i)] = fs[Off(i)]
  BY <1>1, <1>2, DirNames
<1>4. /\ fs'[Legacy(a)] # NoDir <=> p # Legacy(a) /\ fs[Legacy(a)] # NoDir
      /\ fs'[Sealed(a)] # NoDir <=> p # Sealed(a) /\ (q = Sealed(a) \/ fs[Sealed(a)] # NoDir)
      /\ fs'[Tmp(a)] # NoDir <=> p # Tmp(a) /\ (q = Tmp(a) \/ fs[Tmp(a)] # NoDir)
      /\ fs'[Off(a)] # NoDir <=> p # Off(a) /\ (q = Off(a) \/ fs[Off(a)] # NoDir)
  BY <1>1, DirNames
<1>5. LegacyOf' = IF p = Legacy(a) THEN LegacyOf \ {a} ELSE LegacyOf
  BY <1>3, <1>4 DEF LegacyOf, Exists
<1>6. SealedOf' = IF p = Sealed(a) THEN SealedOf \ {a}
                  ELSE IF q = Sealed(a) THEN SealedOf \cup {a} ELSE SealedOf
  BY <1>3, <1>4 DEF SealedOf, Exists
<1>7. MovingOf' = IF p = Tmp(a) THEN MovingOf \ {a}
                  ELSE IF q = Tmp(a) THEN MovingOf \cup {a} ELSE MovingOf
  BY <1>3, <1>4 DEF MovingOf, Exists
<1>8. OffOf' = IF p = Off(a) THEN OffOf \ {a}
               ELSE IF q = Off(a) THEN OffOf \cup {a} ELSE OffOf
  BY <1>3, <1>4 DEF OffOf, Exists
<1>9. fs'[Live] = fs[Live]
  BY <1>1, DirNames
<1> QED  BY <1>5, <1>6, <1>7, <1>8, <1>9

\* A data set that is not the active one gets another name.
LEMMA StowedWhole ==
    ASSUME SetsAreWhole, NEW a \in Systems, NEW p \in {Sealed(a), Off(a), Legacy(a)},
           NEW q \in {Sealed(a), Off(a)}, Renamed(p, q)
    PROVE  SetsAreWhole'
<1>1. MovingOf' = MovingOf /\ fs'[Live] = fs[Live]
  BY RenamedSets, DirNames
<1>2. /\ fs[p] # NoDir /\ fs'[p] = NoDir /\ fs'[q] = fs[p]
      /\ \A d \in Dirs : d \notin {p, q} => fs'[d] = fs[d]
  BY DEF Renamed
<1>3. \A i \in Systems : fs'[Tmp(i)] = fs[Tmp(i)]
  BY <1>2, DirNames
<1>4. Active' = Active
  BY <1>1, <1>3 DEF Active, MovingOf
<1>5. Whole(fs[p])
  BY <1>2 DEF SetsAreWhole, Exists
<1>6. ASSUME NEW i \in Systems, NEW d \in {Sealed(i), Off(i), Legacy(i)}, fs'[d] # NoDir
      PROVE  Whole(fs'[d])
  <2>1. CASE d = q
    BY <2>1, <1>2, <1>5
  <2>2. CASE d # q
    <3>1. d \in Dirs /\ d # p
      BY <1>2, <1>6, DirNames
    <3>2. fs'[d] = fs[d]
      BY <3>1, <2>2, <1>2
    <3> QED  BY <3>2, <1>6 DEF SetsAreWhole, Exists
  <2> QED  BY <2>1, <2>2
<1> QED  BY <1>4, <1>6 DEF SetsAreWhole, Exists

\* Data sealed by an older version becomes sealed data of this one.
LEMMA EarlyMigrate ==
    ASSUME Sound, EarlyPhase, Migrate
    PROVE  KeptEarly'
<1> DEFINE a == Arg
<1>1. Ran("migrate") /\ enabled' = enabled
  BY DEF Ran, Migrate
<1>2. EarlyFrame /\ Head(todo) = <<"migrate", a>> /\ a \in Systems
  BY <1>1, RanFrame, Argument DEF Sound, Core, Ran, SystemSteps
<1>3. Legacy(a) \in Dirs \ {Live} /\ Sealed(a) \in Dirs \ {Live} /\ Legacy(a) # Sealed(a)
  BY <1>2, DirNames
<1>4. /\ ~Exists(Legacy(a)) => fs' = fs
      /\ Exists(Legacy(a)) /\ Exists(Sealed(a)) => fs' = [fs EXCEPT ![Legacy(a)] = NoDir]
      /\ Exists(Legacy(a)) /\ ~Exists(Sealed(a)) => Rename(Legacy(a), Sealed(a))
  BY DEF Migrate
<1> HIDE DEF a
<1>5. CASE ~Exists(Legacy(a))
  <2>1. \A i \in LegacyOf : Head(todo) # <<"migrate", i>>
    BY <1>2, <1>5 DEF LegacyOf
  <2> QED  BY <1>1, <1>2, <1>4, <1>5, <2>1, EarlyQuiet
<1>6. CASE Exists(Legacy(a)) /\ Exists(Sealed(a))
  <2>1. fs'[Legacy(a)] = NoDir /\ \A d \in Dirs : d # Legacy(a) => fs'[d] = fs[d]
    BY <1>3, <1>4, <1>6 DEF Sound, Core, DirsOK
  <2>2. \A i \in LegacyOf' : Head(todo) # <<"migrate", i>>
    BY <2>1, <1>2 DEF LegacyOf, Exists
  <2> QED  BY <1>2, <2>1, <2>2, EarlyShrink
<1>7. CASE Exists(Legacy(a)) /\ ~Exists(Sealed(a))
  <2>1. Renamed(Legacy(a), Sealed(a)) /\ fs'[Live] = fs[Live]
    BY <1>3, <1>4, <1>7, RenameIs DEF Sound
  <2>2. /\ LegacyOf = {a} /\ SealedOf = {} /\ OffOf = {} /\ MovingOf = {}
        /\ LayoutVersion \in fs[Live]
    <3>1. a \in LegacyOf /\ a \notin SealedOf
      BY <1>2, <1>7 DEF LegacyOf, SealedOf
    <3>2. MovingOf = {}
      BY <1>2, <1>7 DEF Sound, Core, NothingIsBuried, MovingOf
    <3> QED  BY <3>1, <3>2 DEF Sound, Alone
  <2>3. LegacyOf' = {} /\ SealedOf' = {a} /\ OffOf' = {} /\ MovingOf' = {}
    BY <1>2, <1>3, <2>1, <2>2, RenamedSets, DirNames
  <2>4. {a} # Systems
    BY DEF Systems
  <2>5. Alone' /\ Tidy'
    BY <2>1, <2>2, <2>3, <2>4 DEF Alone, Tidy
  <2>6. SetsAreWhole'
    BY <1>2, <2>1, StowedWhole DEF Sound
  <2>7. EarlyChange /\ KeepsTidy
    BY <1>2, <2>2, <2>3, <2>5 DEF EarlyChange, KeepsTidy, Changing
  <2>8. EarlyPhase' /\ Settled' /\ PropTells' /\ Callers'
    BY <1>2, <2>7, EarlyStep DEF Sound, Core
  <2> QED  BY <2>5, <2>6, <2>8 DEF KeptEarly
<1> QED  BY <1>5, <1>6, <1>7

\* The data of a disabled system becomes sealed data.
LEMMA EarlyUndisable ==
    ASSUME Sound, EarlyPhase, Undisable
    PROVE  KeptEarly'
<1> DEFINE a == Arg
<1>1. Ran("undisable") /\ enabled' = enabled
  BY DEF Ran, Undisable
<1>2. EarlyFrame /\ Head(todo) = <<"undisable", a>> /\ a \in Systems
  BY <1>1, RanFrame, Argument DEF Sound, Core, Ran, SystemSteps
<1>3. Off(a) \in Dirs \ {Live} /\ Sealed(a) \in Dirs \ {Live} /\ Off(a) # Sealed(a)
  BY <1>2, DirNames
<1>4. /\ Exists(Off(a)) /\ ~Exists(Sealed(a)) => Rename(Off(a), Sealed(a))
      /\ ~(Exists(Off(a)) /\ ~Exists(Sealed(a))) => fs' = fs
  BY DEF Undisable
<1>5. MovingOf = {}
  BY <1>1, HeadInOrder DEF Sound, Core, Ran
<1> HIDE DEF a
<1>6. CASE Exists(Off(a)) /\ ~Exists(Sealed(a))
  <2>1. Renamed(Off(a), Sealed(a)) /\ fs'[Live] = fs[Live]
    BY <1>3, <1>4, <1>6, RenameIs DEF Sound
  <2>2. OffOf = {a} /\ SealedOf = {} /\ LegacyOf = {} /\ LayoutVersion \in fs[Live]
    <3>1. a \in OffOf
      BY <1>2, <1>6 DEF OffOf
    <3> QED  BY <3>1 DEF Sound, Alone
  <2>3. LegacyOf' = {} /\ SealedOf' = {a} /\ OffOf' = {} /\ MovingOf' = {}
    BY <1>2, <1>3, <1>5, <2>1, <2>2, RenamedSets, DirNames
  <2>4. {a} # Systems
    BY DEF Systems
  <2>5. Alone'
    BY <2>3, <2>4 DEF Alone
  <2>6. SetsAreWhole'
    BY <1>2, <2>1, StowedWhole DEF Sound
  <2>7. EarlyChange /\ KeepsTidy
    BY <1>2, <2>3 DEF EarlyChange, KeepsTidy, Changing
  <2>8. EarlyPhase' /\ Settled' /\ PropTells' /\ Callers'
    BY <1>2, <2>7, EarlyStep DEF Sound, Core
  <2> QED  BY <2>5, <2>6, <2>8 DEF KeptEarly
<1>7. CASE ~(Exists(Off(a)) /\ ~Exists(Sealed(a)))
  <2>1. a \notin OffOf
    <3>1. a \in OffOf => a \in SealedOf
      BY <1>2, <1>7 DEF OffOf, SealedOf
    <3> QED  BY <3>1 DEF Sound, Alone
  <2>2. \A i \in OffOf : Head(todo) # <<"undisable", i>>
    BY <2>1, <1>2
  <2> QED  BY <1>1, <1>2, <1>4, <1>7, <2>2, EarlyQuiet
<1> QED  BY <1>6, <1>7

\* The sealed data is put aside: the menu offers that only when it is the data
\* of one system.
LEMMA EarlyDisable ==
    ASSUME Sound, EarlyPhase, Disable
    PROVE  KeptEarly'
<1> DEFINE a == Arg
<1>1. Ran("disable") /\ enabled' = enabled
  BY DEF Ran, Disable
<1>2. EarlyFrame /\ Head(todo) = <<"disable", a>> /\ todo \in Seq(Steps) /\ a \in Systems
  BY <1>1, RanFrame, Argument DEF Sound, Core, Ran, SystemSteps
<1>3. Off(a) \in Dirs \ {Live} /\ Sealed(a) \in Dirs \ {Live} /\ Off(a) # Sealed(a)
  BY <1>2, DirNames
<1>4. /\ Exists(Sealed(a)) /\ ~Exists(Off(a)) => Rename(Sealed(a), Off(a))
      /\ ~(Exists(Sealed(a)) /\ ~Exists(Off(a))) => fs' = fs
  BY DEF Disable
<1>5. LegacyOf = {} /\ MovingOf = {} /\ ~HasStep(todo, "done")
  BY <1>1, HeadEarly DEF Sound, Core, Ran
<1> HIDE DEF a
<1>6. Tidy
  <2>1. HasStep(todo, "disable")
    <3>1. todo # <<>>
      BY <1>2 DEF EarlyFrame
    <3>2. 1 \in 1 .. Len(todo) /\ todo[1][1] = "disable"
      BY <1>2, <3>1
    <3> QED  BY <3>2 DEF HasStep
  <2> QED  BY <2>1, <1>5 DEF Sound, Callers, PropTells
<1>7. CASE Exists(Sealed(a)) /\ ~Exists(Off(a))
  <2>1. Renamed(Sealed(a), Off(a)) /\ fs'[Live] = fs[Live]
    BY <1>3, <1>4, <1>7, RenameIs DEF Sound
  <2>2. SealedOf = {a} /\ OffOf = {} /\ LayoutVersion \in fs[Live]
    <3>1. a \in SealedOf /\ SealedOf \subseteq Systems
      BY <1>2, <1>7 DEF SealedOf
    <3>2. SealedOf = {a}
      BY <3>1, <1>6 DEF Tidy, Systems
    <3>3. OffOf = {}
      BY <3>1 DEF Sound, Alone
    <3> QED  BY <3>1, <3>2, <3>3, <1>6 DEF Tidy
  <2>3. LegacyOf' = {} /\ SealedOf' = {} /\ OffOf' = {a} /\ MovingOf' = {}
    BY <1>2, <1>3, <1>5, <2>1, <2>2, RenamedSets, DirNames
  <2>4. Systems # {}
    BY DEF Systems
  <2>5. Alone' /\ Tidy'
    BY <2>1, <2>2, <2>3, <2>4 DEF Alone, Tidy
  <2>6. SetsAreWhole'
    BY <1>2, <2>1, StowedWhole DEF Sound
  <2>7. EarlyChange /\ KeepsTidy
    BY <1>2, <2>3, <2>5 DEF EarlyChange, KeepsTidy, Changing
  <2>8. EarlyPhase' /\ Settled' /\ PropTells' /\ Callers'
    BY <1>2, <2>7, EarlyStep DEF Sound, Core
  <2> QED  BY <2>5, <2>6, <2>8 DEF KeptEarly
<1>8. CASE ~(Exists(Sealed(a)) /\ ~Exists(Off(a)))
  BY <1>1, <1>2, <1>4, <1>8, EarlyQuiet
<1> QED  BY <1>7, <1>8

\* One entry of the live data is packed.
LEMMA FinishMoveKeeps ==
    ASSUME Sound, FinishMove
    PROVE  (EarlyPhase => KeptEarly') /\ (LatePhase => KeptLate')
<1> DEFINE a == Arg
<1>1. /\ a \in Systems /\ Exists(Tmp(a)) /\ Move(Live, Tmp(a))
      /\ UNCHANGED <<mark, power, which, enabled, dualprop, todo, harm>>
  BY Argument DEF FinishMove, Sound, Core, SystemSteps
<1> HIDE DEF a
<1>2. a \in MovingOf /\ Live # Tmp(a)
  BY <1>1, DirNames DEF MovingOf
<1>3. UNCHANGED DirSets /\ SetsAreWhole' /\ fs'[Live] \subseteq fs[Live]
  BY <1>1, <1>2, MoveWhole DEF Sound
<1>4. UNCHANGED <<LegacyOf, MovingOf, SealedOf, OffOf>>
  BY <1>3 DEF DirSets
<1>5. LegacyOf = {} /\ OffOf = {}
  <2>1. LegacyOf = {}
    BY <1>1 DEF Sound, Core, NothingIsBuried, LegacyOf
  <2> QED  BY <2>1, <1>2 DEF Sound, Alone
<1>6. Alone'
  <2>1. SealedOf = Systems => fs'[Live] = {}
    BY <1>3 DEF Sound, Alone
  <2> QED  BY <2>1, <1>4, <1>5 DEF Sound, Alone
<1>7. ~Tidy
  BY <1>2 DEF Tidy
<1>8. Settled' /\ PropTells' /\ Callers'
  <2>1. Target' = Target
    BY <1>1 DEF Target
  <2> QED  BY <2>1, <1>1, <1>7 DEF Sound, Settled, PropTells, Callers
<1>9. EarlyPhase => EarlyPhase'
  <2>1. Target' = Target /\ StaleOf' = StaleOf
    BY <1>1, <1>4 DEF Target, StaleOf
  <2> QED  BY <2>1, <1>1, <1>4 DEF EarlyPhase
<1>10. LatePhase => LatePhase'
  BY <1>1, <1>4, <1>7 DEF LatePhase
<1> QED  BY <1>3, <1>6, <1>8, <1>9, <1>10 DEF KeptEarly, KeptLate

\* All of it is packed, and the directory gets its final name.
LEMMA PackedIsSealed ==
    ASSUME Sound, FinishRename
    PROVE  /\ Arg \in Systems /\ MovingOf = {Arg} /\ MovingOf' = {}
           /\ SealedOf' = SealedOf \cup {Arg}
           /\ LegacyOf' = {} /\ OffOf' = {} /\ fs'[Live] = {}
           /\ Alone' /\ SetsAreWhole'
<1> DEFINE a == Arg
<1>1. /\ a \in Systems /\ Exists(Tmp(a)) /\ Movable(Live, Tmp(a)) = {}
      /\ Rename(Tmp(a), Sealed(a))
  BY Argument DEF FinishRename, Sound, Core, SystemSteps
<1> HIDE DEF a
<1>2. a \in MovingOf /\ Live # Tmp(a) /\ MovingOf \subseteq Systems
  BY <1>1, DirNames DEF MovingOf
<1>3. fs[Live] = {}
  BY <1>1, <1>2, NothingLeft DEF Sound
<1>4. LegacyOf = {} /\ OffOf = {} /\ MovingOf = {a} /\ ~Exists(Sealed(a))
  <2>1. LegacyOf = {} /\ ~Exists(Sealed(a))
    BY <1>1 DEF Sound, Core, NothingIsBuried, LegacyOf
  <2> QED  BY <2>1, <1>2 DEF Sound, Alone
<1>5. Tmp(a) \in Dirs \ {Live} /\ Sealed(a) \in Dirs \ {Live} /\ Tmp(a) # Sealed(a)
  BY <1>1, DirNames
<1>6. Renamed(Tmp(a), Sealed(a)) /\ fs'[Live] = {}
  BY <1>1, <1>3, <1>4, <1>5, RenameIs DEF Sound
<1>7. MovingOf' = {} /\ SealedOf' = SealedOf \cup {a} /\ LegacyOf' = {} /\ OffOf' = {}
  BY <1>1, <1>4, <1>5, <1>6, RenamedSets, DirNames
<1>8. Alone'
  BY <1>6, <1>7 DEF Alone
<1>9. /\ fs'[Sealed(a)] = fs[Tmp(a)]
      /\ \A d \in Dirs : d \notin {Tmp(a), Sealed(a)} => fs'[d] = fs[d]
  BY <1>6 DEF Renamed
<1>10. Whole(fs[Tmp(a)])
  <2>1. fs[Tmp(a)] \subseteq UserEntries \cup {LayoutVersion}
    BY <1>1, <1>5, Holds DEF Sound
  <2>2. Active = fs[Tmp(a)]
    BY <2>1, <1>3, <1>4 DEF Active
  <2> QED  BY <2>2 DEF Sound, SetsAreWhole
<1>11. Whole(Active)'
  <2>1. Active' = {}
    BY <1>6, <1>7 DEF Active
  <2> QED  BY <2>1 DEF Whole
<1>12. ASSUME NEW i \in Systems, NEW d \in {Sealed(i), Off(i), Legacy(i)}, fs'[d] # NoDir
       PROVE  Whole(fs'[d])
  <2>1. CASE d = Sealed(a)
    BY <2>1, <1>9, <1>10
  <2>2. CASE d # Sealed(a)
    <3>1. d \in Dirs /\ d # Tmp(a)
      BY <1>1, DirNames
    <3>2. fs'[d] = fs[d]
      BY <3>1, <2>2, <1>9
    <3> QED  BY <3>2, <1>12 DEF Sound, SetsAreWhole, Exists
  <2> QED  BY <2>1, <2>2
<1>13. SetsAreWhole'
  BY <1>11, <1>12 DEF SetsAreWhole, Exists
<1> QED  BY <1>1, <1>4, <1>6, <1>7, <1>8, <1>13 DEF a

\* An interrupted packing is finished by dualdata_open.
LEMMA EarlyFinish ==
    ASSUME Sound, EarlyPhase, FinishRename
    PROVE  KeptEarly'
<1>1. /\ Arg \in Systems /\ MovingOf = {Arg} /\ MovingOf' = {}
      /\ LegacyOf' = {} /\ OffOf' = {} /\ Alone' /\ SetsAreWhole'
  BY PackedIsSealed
<1>2. Ran("finish")
  BY DEF Ran, FinishRename
<1>3. EarlyFrame /\ Head(todo) = <<"finish", Arg>>
  BY <1>2, RanFrame DEF Sound
<1>4. EarlyChange
  BY <1>1, <1>3 DEF EarlyChange, Changing
<1>5. KeepsTidy
  BY <1>1 DEF KeepsTidy, Tidy
<1>6. EarlyPhase' /\ Settled' /\ PropTells' /\ Callers'
  BY <1>3, <1>4, <1>5, EarlyStep DEF Sound, Core
<1> QED  BY <1>1, <1>6 DEF KeptEarly

\* A directory that exists gets a layout version.
LEMMA VersionWhole ==
    ASSUME Core, SetsAreWhole, NEW x \in {Live, Sealed(1), Sealed(2)}, Exists(x),
           fs' = [fs EXCEPT ![x] = @ \cup {LayoutVersion}]
    PROVE  /\ UNCHANGED DirSets /\ SetsAreWhole'
           /\ fs'[Live] = IF x = Live THEN fs[Live] \cup {LayoutVersion} ELSE fs[Live]
<1>1. 1 \in Systems /\ 2 \in Systems
  BY DEF Systems
<1>2. x \in Dirs /\ Live \in Dirs
  BY <1>1, DirNames
<1>3. fs'[x] = fs[x] \cup {LayoutVersion} /\ \A d \in Dirs : d # x => fs'[d] = fs[d]
  BY <1>2 DEF Core, DirsOK
<1>4. fs[x] \subseteq UserEntries \cup {LayoutVersion}
  BY <1>2, Holds
<1>5. fs'[x] # NoDir
  BY <1>3, <1>4, Distinct
<1>6. \A d \in Dirs : Exists(d)' <=> Exists(d)
  BY <1>3, <1>5 DEF Exists
<1>7. UNCHANGED DirSets
  BY <1>6, SameDirSets
<1>8. \A i \in Systems : fs'[Tmp(i)] = fs[Tmp(i)]
  BY <1>1, <1>3, DirNames
<1>9. Whole(Active)'
  <2>1. MovingOf' = MovingOf /\ MovingOf \subseteq Systems
    BY <1>7 DEF DirSets, MovingOf
  <2>2. CASE x = Live
    <3>1. Active' = Active \cup {LayoutVersion}
      BY <2>1, <2>2, <1>3, <1>8 DEF Active
    <3> QED  BY <3>1, WholeFacts DEF SetsAreWhole
  <2>3. CASE x # Live
    <3>1. Active' = Active
      BY <2>1, <2>3, <1>2, <1>3, <1>8 DEF Active
    <3> QED  BY <3>1 DEF SetsAreWhole
  <2> QED  BY <2>2, <2>3
<1>10. ASSUME NEW i \in Systems, NEW d \in {Sealed(i), Off(i), Legacy(i)}, fs'[d] # NoDir
       PROVE  Whole(fs'[d])
  <2>1. d \in Dirs
    BY DirNames
  <2>2. fs[d] # NoDir
    BY <2>1, <1>6, <1>10 DEF Exists
  <2>3. Whole(fs[d])
    BY <2>2 DEF SetsAreWhole, Exists
  <2> QED  BY <2>1, <2>3, <1>3, WholeFacts
<1>11. SetsAreWhole'
  BY <1>9, <1>10 DEF SetsAreWhole, Exists
<1> QED  BY <1>2, <1>3, <1>7, <1>11

\* The directory that was just made gets a layout version.
LEMMA EarlyVersion ==
    ASSUME Sound, EarlyPhase, CreateLayoutVersion
    PROVE  KeptEarly'
<1>1. Ran("lv") /\ enabled' = enabled /\ fs' = [fs EXCEPT ![Arg] = @ \cup {LayoutVersion}]
  BY DEF Ran, CreateLayoutVersion
<1>2. EarlyFrame /\ Head(todo) = <<"lv", Arg>>
  BY <1>1, RanFrame DEF Sound
<1>3. Arg \in {Live, Sealed(1), Sealed(2)} /\ Exists(Arg) /\ Arg # Live
  BY <1>1, Argument, HeadEarly DEF Ran, Sound, Core
<1>4. UNCHANGED DirSets /\ SetsAreWhole' /\ fs'[Live] = fs[Live]
  BY <1>1, <1>3, VersionWhole DEF Sound
<1>5. UNCHANGED <<LegacyOf, MovingOf, SealedOf, OffOf>>
  BY <1>4 DEF DirSets
<1>6. Alone'
  BY <1>4, <1>5 DEF Sound, Alone
<1>7. StaleOf' = StaleOf
  BY <1>1, <1>5 DEF StaleOf
<1>8. EarlyChange /\ KeepsTidy
  BY <1>2, <1>4, <1>5, <1>7 DEF EarlyChange, KeepsTidy, Tidy
<1>9. EarlyPhase' /\ Settled' /\ PropTells' /\ Callers'
  BY <1>2, <1>8, EarlyStep DEF Sound, Core
<1> QED  BY <1>4, <1>6, <1>9 DEF KeptEarly

\* Dual data is enabled with nothing sealed: the other system gets an empty
\* directory, and a layout version in the next step.
LEMMA EarlyCreate ==
    ASSUME Sound, EarlyPhase, CreateSealed
    PROVE  KeptEarly'
<1> DEFINE b == Other(which)
           x == <<"lv", Sealed(b)>>
           t == Tail(todo)
<1>1. /\ At("create") /\ UNCHANGED <<mark, power, which, enabled, dualprop, harm>>
      /\ enabled => Pop /\ fs' = fs
      /\ ~enabled => /\ fs' = [fs EXCEPT ![Sealed(Other(Arg))] = IF @ = NoDir THEN {} ELSE @]
                     /\ todo' = << <<"lv", Sealed(Other(Arg))>> >> \o Tail(todo)
  BY DEF CreateSealed
<1>2. todo \in Seq(Steps) /\ todo # <<>> /\ Head(todo) = <<"create", Arg>>
  BY <1>1, Argument DEF Sound, Core
<1>3. /\ LegacyOf = {} /\ MovingOf = {} /\ Arg = which /\ StaleOf = {} /\ OffOf = {}
      /\ HasStep(todo, "done") /\ HasStep(todo, "setprop")
  BY <1>1, HeadEarly DEF Sound, Core
<1>4. CASE enabled
  <2>1. Ran("create")
    BY <1>1, <1>4 DEF Ran
  <2>2. EarlyFrame
    BY <2>1, RanFrame DEF Sound
  <2> QED  BY <1>1, <1>2, <1>4, <2>2, EarlyQuiet
<1>5. CASE ~enabled
  <2>1. SealedOf = {}
    BY <1>3, <1>5 DEF StaleOf
  <2>2. b \in Systems /\ which \in Systems
    BY DEF Sound, Other, Systems
  <2>3. x \in Steps
    BY <2>2 DEF Steps, Systems
  <2>4. todo' = << x >> \o t /\ fs' = [fs EXCEPT ![Sealed(b)] = IF @ = NoDir THEN {} ELSE @]
    BY <1>1, <1>3, <1>5
  <2>5. t \in Seq(Steps) /\ \A op : HasStep(t, op) => HasStep(todo, op)
    BY <1>2, TailFacts, TailSteps
  <2>6. HasStep(t, "done") /\ HasStep(t, "setprop")
    BY <1>2, <1>3, TailSteps
  <2>7. ASSUME NEW op \in {"lv", "mark", "mount"} PROVE ~HasStep(t, op)
    <3>1. /\ Len(todo) \in Nat \ {0} /\ Len(t) = Len(todo) - 1
          /\ \A k \in 1 .. Len(t) : t[k] = todo[k + 1]
          /\ Head(todo) = todo[1]
      BY <1>2, TailFacts
    <3> SUFFICES ASSUME NEW k \in 1 .. Len(t), t[k][1] = op PROVE FALSE
      BY DEF HasStep
    <3>2. k + 1 \in 1 .. Len(todo) /\ k + 1 # 1 /\ todo[k + 1][1] = op
      BY <3>1
    <3>3. Placed(todo, k + 1)
      BY <3>2 DEF EarlyPhase, Early
    <3>4. todo[1][1] # "mark"
      BY <3>1, <1>2
    <3> QED  BY <3>2, <3>3, <3>4 DEF Placed
  <2>8. Early(t, which, {}, {}, {}, {0})
    <3>1. Advanced(todo, LegacyOf, MovingOf, OffOf, StaleOf, {}, {}, {}, {0})
      BY <1>2 DEF Advanced, Changing
    <3> QED  BY <3>1, EarlyPop DEF EarlyPhase
  <2>9. Sealed(b) # Live /\ Sealed(b) \in Dirs
    BY <2>2, DirNames
  <2> HIDE DEF x, t, b
  <2>10. /\ Early(todo', which, {}, {}, {}, {0}) /\ todo' # <<>> /\ Head(todo') = x
         /\ \A op : HasStep(todo', op) <=> op = "lv" \/ HasStep(t, op)
    <3>1. x[1] = "lv" /\ x[2] # Live
      BY <2>9 DEF x
    <3> QED  BY <3>1, <2>3, <2>4, <2>5, <2>6, <2>7, <2>8, EarlyPush
  <2>11. fs'[Sealed(b)] = {} /\ \A d \in Dirs : d # Sealed(b) => fs'[d] = fs[d]
    <3>1. fs[Sealed(b)] = NoDir
      BY <2>1, <2>2 DEF SealedOf, Exists
    <3> QED  BY <3>1, <2>4, <2>9 DEF Sound, Core, DirsOK
  <2>12. LegacyOf' = {} /\ MovingOf' = {} /\ OffOf' = {} /\ SealedOf' = {b} /\ fs'[Live] = fs[Live]
    <3>1. LegacyOf' = LegacyOf /\ MovingOf' = MovingOf /\ OffOf' = OffOf /\ fs'[Live] = fs[Live]
      BY <2>2, <2>11, DirNames DEF LegacyOf, MovingOf, OffOf, Exists
    <3>2. \A i \in Systems : i # b => fs'[Sealed(i)] = fs[Sealed(i)]
      BY <2>2, <2>11, DirNames
    <3>3. SealedOf' = {b}
      BY <3>2, <2>1, <2>2, <2>11, Distinct DEF SealedOf, Exists
    <3> QED  BY <3>1, <3>3, <1>3
  <2>13. Alone'
    <3>1. {b} # Systems
      BY DEF Systems
    <3> QED  BY <3>1, <2>12 DEF Alone
  <2>14. SetsAreWhole'
    <3>1. Active' = Active
      BY <2>12, <1>3 DEF Active
    <3>2. ASSUME NEW i \in Systems, NEW d \in {Sealed(i), Off(i), Legacy(i)}, fs'[d] # NoDir
          PROVE  Whole(fs'[d])
      <4>1. CASE d = Sealed(b)
        BY <4>1, <2>11, WholeFacts
      <4>2. CASE d # Sealed(b)
        <5>1. d \in Dirs
          BY DirNames
        <5>2. fs'[d] = fs[d]
          BY <5>1, <4>2, <2>11
        <5> QED  BY <5>2, <3>2 DEF Sound, SetsAreWhole, Exists
      <4> QED  BY <4>1, <4>2
    <3> QED  BY <3>1, <3>2 DEF Sound, SetsAreWhole, Exists
  <2>15. Target' = Target /\ Target = mark
    <3>1. Head(todo')[1] # "mark"
      BY <2>10 DEF x
    <3> QED  BY <3>1, <1>1, <1>2 DEF Target
  <2>16. EarlyPhase'
    <3>1. StaleOf' = {0}
      BY <1>1, <1>5, <2>12 DEF StaleOf
    <3> QED  BY <3>1, <2>10, <2>12, <1>1 DEF EarlyPhase
  <2>17. Settled' /\ PropTells'
    <3>1. HasStep(todo', "done") /\ ~dualprop
      BY <2>6, <2>10, <1>3 DEF Sound, Callers
    <3> QED  BY <3>1, <1>1 DEF Settled, PropTells
  <2>18. Callers'
    <3>1. power # "android"
      <4>1. 1 \in 1 .. Len(todo) /\ todo[1][1] = "create"
        BY <1>2
      <4> QED  BY <4>1 DEF Sound, Callers
    <3>2. HasStep(todo', "disable") => dualprop
      BY <2>5, <2>10 DEF Sound, Callers
    <3>3. HasStep(todo', "done") /\ ~dualprop
      BY <2>6, <2>10, <1>3 DEF Sound, Callers
    <3> QED  BY <3>1, <3>2, <3>3, <2>15, <1>1 DEF Sound, Callers
  <2> QED  BY <2>13, <2>14, <2>16, <2>17, <2>18 DEF KeptEarly
<1> QED  BY <1>4, <1>5

-----------------------------------------------------------------------------
(* The steps of the switch. *)

\* The steps of a switch, by how many are left.
LEMMA LateMeans ==
    ASSUME NEW s \in Seq(Steps), NEW u \in Systems, Late(s, u)
    PROVE  /\ HasStep(s, "done") /\ s # <<>> /\ Head(s)[1] # "mark"
           /\ \A op \in {"clean", "disable", "setprop"} : ~HasStep(s, op)
           /\ Len(s) \in 1 .. 5
           /\ Len(s) = 5 => Head(s) \in {<<"pack", Other(u)>>, <<"finish", Other(u)>>}
           /\ Len(s) = 4 => Head(s) = <<"unpack", u>>
           /\ Len(s) = 3 => Head(s) = <<"drain", u>>
           /\ Len(s) = 2 => Head(s) = <<"lv", Live>>
           /\ Len(s) = 1 => Head(s) = <<"done", 0>>
<1> DEFINE n == Len(s)
<1>1. n \in 1 .. 5
  BY DEF Late
<1>2. /\ s[n] = <<"done", 0>>
      /\ n >= 2 => s[n - 1] = <<"lv", Live>>
      /\ n >= 3 => s[n - 2] = <<"drain", u>>
      /\ n >= 4 => s[n - 3] = <<"unpack", u>>
      /\ n = 5 => s[1] \in {<<"pack", Other(u)>>, <<"finish", Other(u)>>}
  BY DEF Late
<1>3. s # <<>> /\ Head(s) = s[1]
  <2>1. s = <<>> => n = 0
    OBVIOUS
  <2>2. n # 0
    BY <1>1
  <2> QED  BY <2>1, <2>2
<1> HIDE DEF n
<1>4. 1 \in 1 .. n /\ n \in 1 .. n
  BY <1>1
<1>5. ASSUME NEW k \in 1 .. n
      PROVE  s[k][1] \in {"pack", "finish", "unpack", "drain", "lv", "done"}
  <2>1. \/ k = n
        \/ n >= 2 /\ k = n - 1
        \/ n >= 3 /\ k = n - 2
        \/ n >= 4 /\ k = n - 3
        \/ n = 5 /\ k = 1
    BY <1>1
  <2> QED  BY <2>1, <1>2
<1>6. /\ n = 4 => n >= 4 /\ n - 3 = 1
      /\ n = 3 => n >= 3 /\ n - 2 = 1
      /\ n = 2 => n >= 2 /\ n - 1 = 1
  OBVIOUS
<1>7. /\ n = 4 => s[1] = <<"unpack", u>>
      /\ n = 3 => s[1] = <<"drain", u>>
      /\ n = 2 => s[1] = <<"lv", Live>>
      /\ n = 1 => s[1] = <<"done", 0>>
  BY <1>2, <1>6
<1>8. Head(s)[1] # "mark"
  BY <1>3, <1>4, <1>5
<1>9. HasStep(s, "done")
  BY <1>2, <1>4 DEF HasStep, n
<1>10. \A op \in {"clean", "disable", "setprop"} : ~HasStep(s, op)
  BY <1>5 DEF HasStep, n
<1> QED  BY <1>1, <1>2, <1>3, <1>7, <1>8, <1>9, <1>10 DEF n

\* The first step of a switch is done.
LEMMA LatePop ==
    ASSUME NEW s \in Seq(Steps), NEW u \in Systems, Late(s, u), Len(s) # 1
    PROVE  Late(Tail(s), u) /\ Tail(s) \in Seq(Steps) /\ Len(Tail(s)) = Len(s) - 1
<1> DEFINE t == Tail(s)
           n == Len(s)
<1>1. n \in 1 .. 5 /\ n # 1
  BY DEF Late
<1>2. n \in 2 .. 5 /\ s # <<>>
  <2>1. s = <<>> => n = 0
    OBVIOUS
  <2> HIDE DEF n
  <2>2. n \in 2 .. 5 /\ n # 0
    BY <1>1
  <2> QED  BY <2>1, <2>2
<1>3. /\ t \in Seq(Steps) /\ Len(t) = n - 1
      /\ \A k \in 1 .. Len(t) : t[k] = s[k + 1]
  BY <1>2, TailFacts
<1>4. /\ s[n] = <<"done", 0>>
      /\ n >= 2 => s[n - 1] = <<"lv", Live>>
      /\ n >= 3 => s[n - 2] = <<"drain", u>>
      /\ n >= 4 => s[n - 3] = <<"unpack", u>>
  BY DEF Late
<1> HIDE DEF t, n
<1>5. /\ n - 1 \in 1 .. 4 /\ n >= 2
      /\ (n - 1) + 1 = n /\ n - 1 \in 1 .. (n - 1)
      /\ n - 1 >= 2 => (n - 2) + 1 = n - 1 /\ n - 2 \in 1 .. (n - 1) /\ (n - 1) - 1 = n - 2
      /\ n - 1 >= 3 => /\ (n - 3) + 1 = n - 2 /\ n - 3 \in 1 .. (n - 1)
                        /\ (n - 1) - 2 = n - 3 /\ n >= 3
      /\ n - 1 >= 4 => /\ (n - 4) + 1 = n - 3 /\ n - 4 \in 1 .. (n - 1)
                        /\ (n - 1) - 3 = n - 4 /\ n >= 4
  BY <1>2
<1>6. t[n - 1] = <<"done", 0>>
  BY <1>3, <1>4, <1>5
<1>7. n - 1 >= 2 => t[(n - 1) - 1] = <<"lv", Live>>
  BY <1>3, <1>4, <1>5
<1>8. n - 1 >= 3 => t[(n - 1) - 2] = <<"drain", u>>
  BY <1>3, <1>4, <1>5
<1>9. n - 1 >= 4 => t[(n - 1) - 3] = <<"unpack", u>>
  BY <1>3, <1>4, <1>5
<1>10. n - 1 \in 1 .. 5 /\ n - 1 # 5
  BY <1>2
<1> QED  BY <1>3, <1>6, <1>7, <1>8, <1>9, <1>10 DEF Late, t, n

\* The running command is one of the menu or load.
MenuCommand == power = "recovery" /\ (harm = "none" => which = mark)

\* What a step of the switch may rely on.
LEMMA LateNow ==
    ASSUME Sound, LatePhase, NEW op, At(op)
    PROVE  /\ todo \in Seq(Steps) /\ todo # <<>> /\ Late(todo, which)
           /\ LegacyOf = {} /\ MenuCommand
           /\ \/ /\ op = "pack" /\ Len(todo) = 5 /\ Arg = Other(which)
                 /\ SealedOf # {} /\ MovingOf = {}
              \/ op = "finish" /\ Len(todo) = 5 /\ Arg = Other(which) /\ MovingOf = {Other(which)}
              \/ /\ op = "unpack" /\ Len(todo) = 4 /\ Arg = which
                 /\ Other(which) \in SealedOf /\ MovingOf = {}
              \/ /\ op = "drain" /\ Len(todo) = 3 /\ Arg = which
                 /\ which \notin SealedOf /\ Other(which) \notin MovingOf
              \/ op = "lv" /\ Len(todo) = 2 /\ Arg = Live /\ which \notin SealedOf /\ MovingOf = {}
              \/ op = "done" /\ Len(todo) = 1 /\ Tidy /\ which \notin SealedOf
<1>1. /\ todo \in Seq(Steps) /\ todo # <<>> /\ Head(todo) = <<op, Arg>>
      /\ Late(todo, which) /\ which \in Systems
  BY Argument DEF Sound, Core, LatePhase
<1>2. /\ HasStep(todo, "done") /\ Head(todo)[1] # "mark" /\ Len(todo) \in 1 .. 5
      /\ Len(todo) = 5 => Head(todo) \in {<<"pack", Other(which)>>, <<"finish", Other(which)>>}
      /\ Len(todo) = 4 => Head(todo) = <<"unpack", which>>
      /\ Len(todo) = 3 => Head(todo) = <<"drain", which>>
      /\ Len(todo) = 2 => Head(todo) = <<"lv", Live>>
      /\ Len(todo) = 1 => Head(todo) = <<"done", 0>>
  BY <1>1, LateMeans
<1>3. LegacyOf = {} /\ MenuCommand
  <2>1. Target = mark
    BY <1>2 DEF Target
  <2>2. power = "recovery"
    <3>1. power # "android"
      BY <1>2 DEF HasStep, Sound, Callers
    <3> QED  BY <3>1 DEF Sound, At
  <2> QED  BY <2>1, <2>2 DEF Sound, Callers, LatePhase, MenuCommand
<1>4. \/ Len(todo) = 5 \/ Len(todo) = 4 \/ Len(todo) = 3 \/ Len(todo) = 2 \/ Len(todo) = 1
  BY <1>2
<1>5. /\ Len(todo) = 5 => op \in {"pack", "finish"} /\ Arg = Other(which)
      /\ Len(todo) = 4 => op = "unpack" /\ Arg = which
      /\ Len(todo) = 3 => op = "drain" /\ Arg = which
      /\ Len(todo) = 2 => op = "lv" /\ Arg = Live
      /\ Len(todo) = 1 => op = "done"
  <2> DEFINE n == Len(todo)
             h == Head(todo)
  <2>1. /\ h = <<op, Arg>>
        /\ n = 5 => h \in {<<"pack", Other(which)>>, <<"finish", Other(which)>>}
        /\ n = 4 => h = <<"unpack", which>>
        /\ n = 3 => h = <<"drain", which>>
        /\ n = 2 => h = <<"lv", Live>>
        /\ n = 1 => h = <<"done", 0>>
    BY <1>1, <1>2
  <2> HIDE DEF n, h
  <2>2. /\ n = 5 => op \in {"pack", "finish"} /\ Arg = Other(which)
        /\ n = 4 => op = "unpack" /\ Arg = which
        /\ n = 3 => op = "drain" /\ Arg = which
        /\ n = 2 => op = "lv" /\ Arg = Live
        /\ n = 1 => op = "done"
    BY <2>1
  <2> QED  BY <2>2 DEF n
<1>6. /\ Len(todo) = 5 /\ op = "pack" => SealedOf # {} /\ MovingOf = {}
      /\ Len(todo) = 5 /\ op = "finish" => MovingOf = {Other(which)}
      /\ Len(todo) = 4 => Other(which) \in SealedOf /\ MovingOf = {}
      /\ Len(todo) = 3 => which \notin SealedOf /\ Other(which) \notin MovingOf
      /\ Len(todo) = 2 => which \notin SealedOf /\ MovingOf = {}
      /\ Len(todo) = 1 => Tidy /\ which \notin SealedOf
  BY <1>1 DEF LatePhase
<1> QED  BY <1>1, <1>3, <1>4, <1>5, <1>6

\* A switch does not come to rest, and no other command runs beside it.
LEMMA LateRest ==
    ASSUME Late(todo', which'), todo' \in Seq(Steps), which' \in Systems, MenuCommand'
    PROVE  Settled' /\ PropTells' /\ Callers'
<1>1. /\ HasStep(todo', "done") /\ todo' # <<>> /\ Head(todo')[1] # "mark"
      /\ \A op \in {"clean", "disable", "setprop"} : ~HasStep(todo', op)
  BY LateMeans
<1>2. ~HasStep(todo', "clean") /\ ~HasStep(todo', "disable")
  BY <1>1
<1>3. Target' = mark'
  BY <1>1 DEF Target
<1> QED  BY <1>1, <1>2, <1>3 DEF Settled, PropTells, Callers, MenuCommand

\* The switch begins.
LEMMA SwitchKeeps ==
    ASSUME Sound, EarlyPhase, Switch
    PROVE  KeptLate'
<1>1. /\ At("switch") /\ UNCHANGED <<mark, fs, power, which, harm, enabled>>
      /\ todo' = (IF enabled THEN SwitchProgram(Arg) ELSE <<>>) \o Tail(todo)
  BY DEF Switch
<1>2. todo \in Seq(Steps) /\ todo # <<>> /\ Head(todo) = <<"switch", Arg>>
  BY <1>1, Argument DEF Sound, Core
<1>3. /\ Len(todo) = 2 /\ todo[2] = <<"done", 0>> /\ LegacyOf = {} /\ MovingOf = {}
      /\ Arg = which /\ StaleOf = {}
  BY <1>1, HeadEarly DEF Sound, Core
<1> DEFINE t == Tail(todo)
<1>4. t \in Seq(Steps) /\ Len(t) = 1 /\ t[1] = <<"done", 0>>
  BY <1>2, <1>3
<1> HIDE DEF t
<1>5. UNCHANGED DirSets /\ Alone' /\ SetsAreWhole'
  BY <1>1, SameData DEF Sound
<1>6. UNCHANGED <<LegacyOf, MovingOf, SealedOf, OffOf>>
  BY <1>5 DEF DirSets
<1>7. MenuCommand /\ which \in Systems
  <2>1. 1 \in 1 .. Len(todo) /\ todo[1][1] = "switch"
    BY <1>2
  <2>2. Target = mark
    BY <1>2 DEF Target
  <2>3. power = "recovery"
    BY <2>1, <1>1 DEF Sound, Callers, At
  <2> QED  BY <2>2, <2>3 DEF Sound, Callers, MenuCommand
<1>8. CASE enabled
  <2> DEFINE p == SwitchProgram(which)
  <2>1. /\ Len(p) = 4 /\ p[1] = <<"pack", Other(which)>> /\ p[2] = <<"unpack", which>>
        /\ p[3] = <<"drain", which>> /\ p[4] = <<"lv", Live>>
    BY DEF SwitchProgram
  <2>2. p \in Seq(Steps)
    <3>1. Other(which) \in Systems
      BY <1>7 DEF Other, Systems
    <3>2. {<<"pack", Other(which)>>, <<"unpack", which>>, <<"drain", which>>,
           <<"lv", Live>>} \subseteq Steps
      BY <3>1, <1>7 DEF Steps
    <3> QED  BY <3>2 DEF SwitchProgram
  <2>3. todo' = p \o t
    BY <1>1, <1>3, <1>8 DEF t
  <2> HIDE DEF p
  <2>4. /\ todo' \in Seq(Steps) /\ Len(todo') = Len(p) + Len(t)
        /\ \A k \in 1 .. Len(p) : todo'[k] = p[k]
        /\ \A k \in 1 .. Len(t) : todo'[Len(p) + k] = t[k]
    BY <2>2, <2>3, <1>4, Chain
  <2>5. /\ Len(todo') = 5 /\ 5 \in 1 .. 5
        /\ 5 - 1 = 4 /\ 5 - 2 = 3 /\ 5 - 3 = 2
        /\ 4 + 1 = 5 /\ {1, 2, 3, 4} \subseteq 1 .. 4 /\ 1 \in 1 .. 1
    BY <2>1, <2>4, <1>4
  <2>6. /\ todo'[1] = <<"pack", Other(which)>> /\ todo'[2] = <<"unpack", which>>
        /\ todo'[3] = <<"drain", which>> /\ todo'[4] = <<"lv", Live>>
    BY <2>1, <2>4, <2>5
  <2>7. todo'[5] = <<"done", 0>>
    <3>1. todo'[4 + 1] = t[1]
      BY <2>1, <2>4, <1>4
    <3> QED  BY <3>1, <1>4
  <2>8. Late(todo', which')
    BY <2>5, <2>6, <2>7, <1>1 DEF Late
  <2>9. SealedOf # {}
    BY <1>3, <1>8 DEF StaleOf
  <2>10. Head(todo')[1] = "pack"
    BY <2>4, <2>5, <2>6
  <2>11. LatePhase'
    BY <2>5, <2>8, <2>9, <2>10, <1>3, <1>6 DEF LatePhase
  <2>12. Settled' /\ PropTells' /\ Callers'
    BY <2>4, <2>8, <1>1, <1>7, LateRest DEF MenuCommand
  <2> QED  BY <2>11, <2>12, <1>5 DEF KeptLate
<1>9. CASE ~enabled
  <2>1. todo' = <<>> \o t
    BY <1>1, <1>9 DEF t
  <2>2. Len(todo') = 1 /\ todo'[1] = <<"done", 0>>
    BY <2>1, <1>4
  <2>3. todo' \in Seq(Steps)
    BY <2>1, <1>4
  <2>4. Late(todo', which')
    BY <2>2 DEF Late
  <2>5. SealedOf = {}
    BY <1>3, <1>9 DEF StaleOf
  <2>6. Tidy'
    <3>1. Systems # {}
      BY DEF Systems
    <3> QED  BY <3>1, <2>5, <1>3, <1>6 DEF Tidy
  <2>7. LatePhase'
    BY <2>2, <2>4, <2>5, <2>6, <1>3, <1>6 DEF LatePhase
  <2>8. Settled' /\ PropTells' /\ Callers'
    BY <2>3, <2>4, <1>1, <1>7, LateRest DEF MenuCommand
  <2> QED  BY <2>7, <2>8, <1>5 DEF KeptLate
<1> QED  BY <1>8, <1>9

\* The first step of a switch is done, and it was not the last one.
LEMMA LateNext ==
    ASSUME Sound, LatePhase, NEW op, At(op), op # "done", Pop, UNCHANGED <<mark, power, which, harm>>
    PROVE  /\ Late(todo', which') /\ Len(todo') = Len(todo) - 1 /\ Len(todo) \in 2 .. 5
           /\ Settled' /\ PropTells' /\ Callers'
<1>1. /\ todo \in Seq(Steps) /\ todo # <<>> /\ Late(todo, which) /\ Len(todo) \in 2 .. 5
      /\ MenuCommand /\ which \in Systems
  <2>1. /\ todo \in Seq(Steps) /\ todo # <<>> /\ Late(todo, which)
        /\ MenuCommand /\ which \in Systems
    BY LateNow DEF Sound
  <2>2. Len(todo) = 5 \/ Len(todo) = 4 \/ Len(todo) = 3 \/ Len(todo) = 2
    BY LateNow
  <2>3. Len(todo) \in 2 .. 5
    BY <2>2
  <2> QED  BY <2>1, <2>3
<1>2. Late(todo', which') /\ todo' \in Seq(Steps) /\ Len(todo') = Len(todo) - 1
  <2>1. Len(todo) # 1
    BY <1>1
  <2> QED  BY <2>1, <1>1, LatePop DEF Pop
<1>3. Settled' /\ PropTells' /\ Callers'
  BY <1>1, <1>2, LateRest DEF MenuCommand
<1> QED  BY <1>1, <1>2, <1>3

\* The mkdir of the packing.
LEMMA LatePack ==
    ASSUME Sound, LatePhase, Pack
    PROVE  KeptLate'
<1> DEFINE o == Other(which)
           x == <<"finish", o>>
           t == Tail(todo)
<1>1. /\ At("pack") /\ UNCHANGED <<mark, power, which, harm>>
      /\ Exists(Sealed(Arg)) => Pop /\ fs' = fs
      /\ ~Exists(Sealed(Arg)) =>
            /\ fs' = [fs EXCEPT ![Tmp(Arg)] = IF Exists(Tmp(Arg)) THEN @ ELSE {}]
            /\ todo' = << <<"finish", Arg>> >> \o Tail(todo)
  BY DEF Pack
<1>2. /\ todo \in Seq(Steps) /\ todo # <<>> /\ Late(todo, which) /\ Len(todo) = 5
      /\ LegacyOf = {} /\ MenuCommand
      /\ Arg = o /\ SealedOf # {} /\ MovingOf = {}
  BY <1>1, LateNow
<1>3. which \in Systems /\ o \in Systems /\ o # which
  BY DEF Sound, Other, Systems
<1>4. CASE Exists(Sealed(o))
  <2>1. Pop /\ fs' = fs
    BY <1>1, <1>2, <1>4
  <2>2. /\ Late(todo', which') /\ Len(todo') = Len(todo) - 1
        /\ Settled' /\ PropTells' /\ Callers'
    BY <1>1, <2>1, LateNext
  <2>3. UNCHANGED DirSets /\ Alone' /\ SetsAreWhole'
    BY <2>1, SameData DEF Sound
  <2>4. LegacyOf' = {} /\ MovingOf' = {} /\ o \in SealedOf'
    <3>1. o \in SealedOf
      BY <1>3, <1>4 DEF SealedOf
    <3> QED  BY <3>1, <2>3, <1>2 DEF DirSets
  <2>5. Len(todo') = 4
    BY <2>2, <1>2
  <2>6. LatePhase'
    <3>1. Late(todo', which') /\ which' = which
      BY <2>2, <1>1
    <3> QED  BY <3>1, <2>4, <2>5 DEF LatePhase
  <2> QED  BY <2>2, <2>3, <2>6 DEF KeptLate
<1>5. CASE ~Exists(Sealed(o))
  <2>1. ~Exists(Tmp(o)) /\ Tmp(o) \in Dirs
    BY <1>2, <1>3, DirNames DEF MovingOf
  <2>2. fs' = [fs EXCEPT ![Tmp(o)] = {}] /\ todo' = << x >> \o t
    BY <2>1, <1>1, <1>2, <1>5
  <2>3. fs'[Tmp(o)] = {} /\ \A d \in Dirs : d # Tmp(o) => fs'[d] = fs[d]
    BY <2>1, <2>2 DEF Sound, Core, DirsOK
  <2>4. OffOf = {}
    BY <1>2 DEF Sound, Alone
  <2>5. x \in Steps
    BY <1>3 DEF Steps
  <2>6. /\ t \in Seq(Steps) /\ Len(t) = 4 /\ Late(t, which)
    <3>1. Len(todo) # 1
      BY <1>2
    <3>2. Late(t, which) /\ t \in Seq(Steps) /\ Len(t) = Len(todo) - 1
      BY <3>1, <1>2, <1>3, LatePop
    <3> QED  BY <3>2, <1>2
  <2> HIDE DEF x, t, o
  <2>7. /\ todo' \in Seq(Steps) /\ Len(todo') = 5 /\ Head(todo') = x /\ todo'[1] = x
        /\ todo'[2] = t[1] /\ todo'[3] = t[2] /\ todo'[4] = t[3] /\ todo'[5] = t[4]
    <3> DEFINE s == << x >> \o t
    <3>1. t \in Seq(Steps)
      BY <2>6
    <3>2. /\ s \in Seq(Steps) /\ Len(s) = Len(t) + 1 /\ Head(s) = x /\ s[1] = x
          /\ \A k \in 1 .. Len(t) : s[k + 1] = t[k]
      BY <3>1, <2>5
    <3> HIDE DEF s
    <3>3. /\ todo' \in Seq(Steps) /\ Len(todo') = Len(t) + 1 /\ Head(todo') = x /\ todo'[1] = x
          /\ \A k \in 1 .. Len(t) : todo'[k + 1] = t[k]
      <4>1. todo' = s
        BY <2>2 DEF s
      <4> QED  BY <4>1, <3>2
    <3>4. \A k \in 1 .. 4 : todo'[k + 1] = t[k]
      BY <3>3, <2>6
    <3>5. /\ {1, 2, 3, 4} \subseteq 1 .. 4
          /\ 1 + 1 = 2 /\ 2 + 1 = 3 /\ 3 + 1 = 4 /\ 4 + 1 = 5
      OBVIOUS
    <3>6. todo'[2] = t[1] /\ todo'[3] = t[2] /\ todo'[4] = t[3] /\ todo'[5] = t[4]
      BY <3>4, <3>5
    <3> QED  BY <3>3, <3>5, <3>6, <2>6
  <2>8. /\ t[4] = <<"done", 0>> /\ t[3] = <<"lv", Live>>
        /\ t[2] = <<"drain", which>> /\ t[1] = <<"unpack", which>>
    <3>1. /\ 4 >= 2 /\ 4 >= 3 /\ 4 >= 4
          /\ t[4] = <<"done", 0>>
          /\ 4 >= 2 => t[4 - 1] = <<"lv", Live>>
          /\ 4 >= 3 => t[4 - 2] = <<"drain", which>>
          /\ 4 >= 4 => t[4 - 3] = <<"unpack", which>>
      BY <2>6 DEF Late
    <3>2. 4 - 1 = 3 /\ 4 - 2 = 2 /\ 4 - 3 = 1
      OBVIOUS
    <3> QED  BY <3>1, <3>2
  <2>9. Late(todo', which')
    <3>1. /\ 5 \in 1 .. 5 /\ 5 - 1 = 4 /\ 5 - 2 = 3 /\ 5 - 3 = 2
      OBVIOUS
    <3> QED  BY <3>1, <2>7, <2>8, <1>1 DEF Late, x, o
  <2>10. Settled' /\ PropTells' /\ Callers'
    BY <2>7, <2>9, <1>1, <1>2, <1>3, LateRest DEF MenuCommand
  <2>11. /\ LegacyOf' = {} /\ MovingOf' = {o} /\ OffOf' = {}
         /\ SealedOf' = SealedOf /\ fs'[Live] = fs[Live]
    <3>1. LegacyOf' = LegacyOf /\ SealedOf' = SealedOf /\ OffOf' = OffOf /\ fs'[Live] = fs[Live]
      BY <1>3, <2>3, DirNames DEF LegacyOf, SealedOf, OffOf, Exists
    <3>2. \A i \in Systems : i # o => fs'[Tmp(i)] = fs[Tmp(i)]
      BY <1>3, <2>3, DirNames
    <3>3. MovingOf' = {o}
      BY <3>2, <1>2, <1>3, <2>3, Distinct DEF MovingOf, Exists
    <3> QED  BY <3>1, <3>3, <2>4, <1>2
  <2>12. Alone'
    BY <2>11 DEF Sound, Alone
  <2>13. SetsAreWhole'
    <3>1. Active' = Active
      BY <2>3, <2>11, <1>2 DEF Active
    <3>2. \A i \in Systems : \A d \in {Sealed(i), Off(i), Legacy(i)} : fs'[d] = fs[d]
      BY <1>3, <2>3, DirNames
    <3> QED  BY <3>1, <3>2 DEF Sound, SetsAreWhole, Exists
  <2>14. LatePhase'
    <3>1. Head(todo')[1] = "finish"
      BY <2>7 DEF x
    <3> QED  BY <3>1, <2>7, <2>9, <2>11, <1>1 DEF LatePhase, o
  <2> QED  BY <2>10, <2>12, <2>13, <2>14 DEF KeptLate
<1> QED  BY <1>4, <1>5

\* The live data is packed.
LEMMA LateFinish ==
    ASSUME Sound, LatePhase, FinishRename
    PROVE  KeptLate'
<1>1. At("finish") /\ Pop /\ UNCHANGED <<mark, power, which, harm>>
  BY DEF FinishRename
<1>2. /\ MovingOf' = {} /\ SealedOf' = SealedOf \cup {Arg} /\ LegacyOf' = {}
      /\ Alone' /\ SetsAreWhole'
  BY PackedIsSealed
<1>3. Len(todo) = 5 /\ Arg = Other(which)
  BY <1>1, LateNow
<1>4. /\ Late(todo', which') /\ Len(todo') = Len(todo) - 1
      /\ Settled' /\ PropTells' /\ Callers'
  BY <1>1, LateNext
<1>5. Len(todo') = 4
  BY <1>3, <1>4
<1>6. LatePhase'
  BY <1>1, <1>2, <1>3, <1>4, <1>5 DEF LatePhase
<1> QED  BY <1>2, <1>4, <1>6 DEF KeptLate

\* The sealed data gets ready to be unpacked: the live data is packed by then.
LEMMA LateUnpack ==
    ASSUME Sound, LatePhase, Unpack
    PROVE  KeptLate'
<1> DEFINE a == which
<1>1. At("unpack") /\ Pop /\ UNCHANGED <<mark, power, which, harm>>
  BY DEF Unpack
<1>2. Len(todo) = 4 /\ Arg = a /\ Other(a) \in SealedOf /\ MovingOf = {} /\ LegacyOf = {}
  BY <1>1, LateNow
<1>3. a \in Systems /\ Other(a) \in Systems /\ Other(a) # a /\ Systems = {a, Other(a)}
  BY DEF Sound, Other, Systems
<1>4. /\ Late(todo', which') /\ Len(todo') = Len(todo) - 1
      /\ Settled' /\ PropTells' /\ Callers'
  BY <1>1, LateNext
<1>5. Len(todo') = 3
  BY <1>2, <1>4
<1>6. ~Exists(Tmp(a))
  BY <1>2, <1>3 DEF MovingOf
<1>7. /\ Exists(Sealed(a)) => Rename(Sealed(a), Tmp(a))
      /\ ~Exists(Sealed(a)) => fs' = fs
  BY <1>2, <1>6 DEF Unpack
<1>8. CASE ~Exists(Sealed(a))
  <2>1. UNCHANGED DirSets /\ Alone' /\ SetsAreWhole'
    BY <1>7, <1>8, SameData DEF Sound
  <2>2. LegacyOf' = {} /\ MovingOf' = {} /\ a \notin SealedOf'
    BY <2>1, <1>2, <1>8 DEF DirSets, SealedOf
  <2>3. LatePhase'
    <3>1. Late(todo', which') /\ which' = which
      BY <1>1, <1>4
    <3>2. Other(a) \notin MovingOf'
      BY <2>2
    <3> QED  BY <3>1, <3>2, <2>2, <1>5 DEF LatePhase
  <2> QED  BY <2>1, <2>3, <1>4 DEF KeptLate
<1>9. CASE Exists(Sealed(a))
  <2>1. SealedOf = Systems /\ fs[Live] = {} /\ OffOf = {}
    <3>1. a \in SealedOf /\ SealedOf \subseteq Systems
      BY <1>3, <1>9 DEF SealedOf
    <3>2. SealedOf = Systems
      BY <3>1, <1>2, <1>3
    <3> QED  BY <3>1, <3>2 DEF Sound, Alone
  <2>2. Tmp(a) \in Dirs \ {Live} /\ Sealed(a) \in Dirs \ {Live} /\ Tmp(a) # Sealed(a)
    BY <1>3, DirNames
  <2>3. Renamed(Sealed(a), Tmp(a)) /\ fs'[Live] = {}
    BY <1>6, <1>7, <1>9, <2>1, <2>2, RenameIs DEF Sound
  <2>4. SealedOf' = Systems \ {a} /\ MovingOf' = {a} /\ LegacyOf' = {} /\ OffOf' = {}
    BY <1>2, <1>3, <2>1, <2>2, <2>3, RenamedSets, DirNames
  <2>5. Alone'
    BY <2>3, <2>4 DEF Alone
  <2>6. /\ fs'[Tmp(a)] = fs[Sealed(a)]
        /\ \A d \in Dirs : d \notin {Tmp(a), Sealed(a)} => fs'[d] = fs[d]
        /\ fs'[Sealed(a)] = NoDir
    BY <2>3 DEF Renamed
  <2>7. SetsAreWhole'
    <3>1. Active' = fs[Sealed(a)]
      <4>1. fs[Sealed(a)] \subseteq UserEntries \cup {LayoutVersion}
        BY <1>9, <2>2, Holds DEF Sound
      <4> QED  BY <4>1, <2>3, <2>4, <2>6 DEF Active
    <3>2. Whole(Active)'
      BY <3>1, <1>3, <1>9 DEF Sound, SetsAreWhole
    <3>3. ASSUME NEW i \in Systems, NEW d \in {Sealed(i), Off(i), Legacy(i)}, fs'[d] # NoDir
          PROVE  Whole(fs'[d])
      <4>1. d \in Dirs /\ d # Tmp(a) /\ d # Sealed(a)
        BY <1>3, <2>6, <3>3, DirNames
      <4>2. fs'[d] = fs[d]
        BY <4>1, <2>6
      <4> QED  BY <4>2, <3>3 DEF Sound, SetsAreWhole, Exists
    <3> QED  BY <3>2, <3>3 DEF SetsAreWhole, Exists
  <2>8. LatePhase'
    <3>1. Late(todo', which') /\ which' = which
      BY <1>1, <1>4
    <3>2. Other(a) \notin MovingOf' /\ a \notin SealedOf'
      BY <2>4, <1>3
    <3> QED  BY <3>1, <3>2, <2>4, <1>5 DEF LatePhase
  <2> QED  BY <2>5, <2>7, <2>8, <1>4 DEF KeptLate
<1> QED  BY <1>8, <1>9

\* One entry is unpacked.
LEMMA LateDrainMove ==
    ASSUME Sound, LatePhase, DrainMove
    PROVE  KeptLate'
<1> DEFINE a == which
<1>1. At("drain") /\ UNCHANGED <<mark, power, which, harm, todo>>
  BY DEF DrainMove
<1>2. /\ todo \in Seq(Steps) /\ Late(todo, which) /\ Len(todo) = 3 /\ Arg = a
      /\ a \notin SealedOf /\ Other(a) \notin MovingOf /\ LegacyOf = {}
      /\ MenuCommand
  BY <1>1, LateNow
<1>3. a \in Systems /\ Exists(Tmp(a)) /\ Move(Tmp(a), Live)
  BY <1>2 DEF DrainMove, Sound
<1>4. a \in MovingOf /\ Live # Tmp(a)
  BY <1>3, DirNames DEF MovingOf
<1>5. UNCHANGED DirSets /\ SetsAreWhole'
  BY <1>3, <1>4, MoveWhole DEF Sound
<1>6. UNCHANGED <<LegacyOf, MovingOf, SealedOf, OffOf>>
  BY <1>5 DEF DirSets
<1>7. Alone'
  <2>1. OffOf = {} /\ SealedOf # Systems
    BY <1>2, <1>3, <1>4 DEF Sound, Alone
  <2> QED  BY <2>1, <1>2, <1>6 DEF Sound, Alone
<1>8. Settled' /\ PropTells' /\ Callers'
  BY <1>1, <1>2, <1>3, LateRest DEF MenuCommand
<1>9. LatePhase'
  BY <1>1, <1>2, <1>6 DEF LatePhase
<1> QED  BY <1>5, <1>7, <1>8, <1>9 DEF KeptLate

\* All is unpacked, and the directory is empty and removed.
LEMMA LateDrainEnd ==
    ASSUME Sound, LatePhase, DrainEnd
    PROVE  KeptLate'
<1> DEFINE a == which
<1>1. At("drain") /\ Pop /\ UNCHANGED <<mark, power, which, harm>>
  BY DEF DrainEnd
<1>2. /\ Len(todo) = 3 /\ Arg = a /\ a \notin SealedOf /\ Other(a) \notin MovingOf
      /\ LegacyOf = {}
  BY <1>1, LateNow
<1>3. a \in Systems /\ Systems = {a, Other(a)}
  BY DEF Sound, Other, Systems
<1>4. /\ Late(todo', which') /\ Len(todo') = Len(todo) - 1
      /\ Settled' /\ PropTells' /\ Callers'
  BY <1>1, LateNext
<1>5. Len(todo') = 2
  BY <1>2, <1>4
<1>6. CASE ~Exists(Tmp(a))
  <2>1. fs' = fs
    BY <1>2, <1>6 DEF DrainEnd
  <2>2. UNCHANGED DirSets /\ Alone' /\ SetsAreWhole'
    BY <2>1, SameData DEF Sound
  <2>3. MovingOf = {}
    BY <1>2, <1>3, <1>6 DEF MovingOf
  <2>4. LatePhase'
    BY <2>2, <2>3, <1>1, <1>2, <1>4, <1>5 DEF LatePhase, DirSets
  <2> QED  BY <2>2, <2>4, <1>4 DEF KeptLate
<1>7. CASE Exists(Tmp(a))
  <2>1. a \in MovingOf /\ Live # Tmp(a) /\ Tmp(a) \in Dirs /\ MovingOf \subseteq Systems
    BY <1>3, <1>7, DirNames DEF MovingOf
  <2>2. Movable(Tmp(a), Live) = {} /\ Rmdir(Tmp(a))
    BY <1>2, <1>7 DEF DrainEnd, RmdirDrained
  <2>3. fs[Tmp(a)] = {}
    BY <2>1, <2>2, NothingLeft DEF Sound
  <2>4. fs'[Tmp(a)] = NoDir /\ \A d \in Dirs : d # Tmp(a) => fs'[d] = fs[d]
    BY <2>1, <2>2, <2>3 DEF Rmdir, Sound, Core, DirsOK
  <2>5. MovingOf = {a} /\ OffOf = {}
    BY <2>1 DEF Sound, Alone
  <2>6. MovingOf' = {}
    <3>1. \A i \in Systems : i # a => fs'[Tmp(i)] = fs[Tmp(i)]
      BY <1>3, <2>4, DirNames
    <3> QED  BY <3>1, <2>4, <2>5 DEF MovingOf, Exists
  <2>7. LegacyOf' = {} /\ OffOf' = {} /\ SealedOf' = SealedOf /\ fs'[Live] = fs[Live]
    <3>1. LegacyOf' = LegacyOf /\ SealedOf' = SealedOf /\ OffOf' = OffOf /\ fs'[Live] = fs[Live]
      BY <1>3, <2>4, DirNames DEF LegacyOf, SealedOf, OffOf, Exists
    <3> QED  BY <3>1, <2>5, <1>2
  <2>8. Alone'
    BY <2>6, <2>7 DEF Sound, Alone
  <2>9. SetsAreWhole'
    <3>1. Active' = Active
      BY <2>3, <2>5, <2>6, <2>7 DEF Active
    <3>2. \A i \in Systems : \A d \in {Sealed(i), Off(i), Legacy(i)} : fs'[d] = fs[d]
      BY <1>3, <2>4, DirNames
    <3> QED  BY <3>1, <3>2 DEF Sound, SetsAreWhole, Exists
  <2>10. LatePhase'
    BY <2>6, <2>7, <1>1, <1>2, <1>4, <1>5 DEF LatePhase
  <2> QED  BY <2>8, <2>9, <2>10, <1>4 DEF KeptLate
<1> QED  BY <1>6, <1>7

\* The live data has a layout version.
LEMMA LateVersion ==
    ASSUME Sound, LatePhase, CreateLayoutVersion
    PROVE  KeptLate'
<1>1. /\ At("lv") /\ Pop /\ UNCHANGED <<mark, power, which, harm>>
      /\ fs' = [fs EXCEPT ![Arg] = @ \cup {LayoutVersion}]
  BY DEF CreateLayoutVersion
<1>2. Len(todo) = 2 /\ Arg = Live /\ which \notin SealedOf /\ MovingOf = {} /\ LegacyOf = {}
  BY <1>1, LateNow
<1>3. /\ Late(todo', which') /\ Len(todo') = Len(todo) - 1
      /\ Settled' /\ PropTells' /\ Callers'
  BY <1>1, LateNext
<1>4. Len(todo') = 1
  BY <1>2, <1>3
<1>5. UNCHANGED DirSets /\ SetsAreWhole' /\ fs'[Live] = fs[Live] \cup {LayoutVersion}
  <2>1. Exists(Live)
    BY DEF Sound, Core, DirsOK
  <2> QED  BY <2>1, <1>1, <1>2, VersionWhole DEF Sound
<1>6. UNCHANGED <<LegacyOf, MovingOf, SealedOf, OffOf>>
  BY <1>5 DEF DirSets
<1>7. SealedOf # Systems
  BY <1>2 DEF Sound
<1>8. Alone' /\ Tidy'
  BY <1>2, <1>5, <1>6, <1>7 DEF Sound, Alone, Tidy
<1>9. LatePhase'
  BY <1>1, <1>2, <1>3, <1>4, <1>6, <1>8 DEF LatePhase
<1> QED  BY <1>3, <1>5, <1>8, <1>9 DEF KeptLate

\* The switch is over, and the data is where the property says; where the mark
\* says, too, unless its last write failed.
LEMMA LateDone ==
    ASSUME Sound, LatePhase, Done
    PROVE  KeptEarly'
<1>1. /\ At("done") /\ Pop /\ UNCHANGED <<mark, fs, power, which, dualprop>>
      /\ harm' = IF harm = "interrupted" /\ which = mark THEN "none" ELSE harm
  BY DEF Done
<1>2. /\ todo \in Seq(Steps) /\ todo # <<>> /\ Len(todo) = 1 /\ Tidy /\ which \notin SealedOf
      /\ LegacyOf = {} /\ MenuCommand
  BY <1>1, LateNow
<1>3. todo' = <<>> /\ Len(todo') = 0 /\ 1 .. 0 = {}
  <2>1. Len(Tail(todo)) = 0 /\ Tail(todo) \in Seq(Steps)
    BY <1>2
  <2> QED  BY <2>1, <1>1 DEF Pop
<1>4. UNCHANGED DirSets /\ Tidy' /\ Alone' /\ SetsAreWhole'
  BY <1>1, <1>2, SameData DEF Sound
<1>5. EarlyPhase'
  BY <1>3 DEF EarlyPhase, Early
<1>6. power = "recovery" /\ (harm' = "none" => which = mark)
  BY <1>1, <1>2 DEF MenuCommand
<1>7. Settled' /\ PropTells'
  <2>1. SealedOf' = SealedOf /\ LegacyOf' = LegacyOf
    BY <1>4 DEF DirSets
  <2> QED  BY <2>1, <1>1, <1>2, <1>4, <1>6 DEF Settled, PropTells
<1>8. Callers'
  <2>1. Target' = mark
    BY <1>1, <1>3 DEF Target
  <2>2. \A op : ~HasStep(todo', op)
    BY <1>3 DEF HasStep
  <2> QED  BY <2>1, <2>2, <1>1, <1>6 DEF Callers
<1> QED  BY <1>4, <1>5, <1>7, <1>8 DEF KeptEarly

-----------------------------------------------------------------------------
(* All that may happen. *)

Kept == KeptEarly \/ KeptLate

\* Every step of a command.
LEMMA ScriptKeeps ==
    ASSUME Sound, EarlyPhase \/ LatePhase, Script
    PROVE  Kept'
<1>1. CASE EarlyPhase
  <2>1. CASE WriteMark \/ Mount \/ FinishNothing \/ Flag \/ SetProp
    BY <1>1, <2>1, EarlyQuietSteps DEF Kept
  <2>2. CASE Clean \/ Migrate \/ FinishMove \/ FinishRename
    BY <1>1, <2>2, EarlyClean, EarlyMigrate, FinishMoveKeeps, EarlyFinish DEF Kept
  <2>3. CASE Undisable \/ Disable \/ CreateSealed \/ CreateLayoutVersion \/ Switch
    BY <1>1, <2>3, EarlyUndisable, EarlyDisable, EarlyCreate, EarlyVersion, SwitchKeeps DEF Kept
  <2>4. CASE Pack \/ Unpack \/ DrainMove \/ DrainEnd \/ Done
    <3>1. At("pack") \/ At("unpack") \/ At("drain") \/ At("done")
      BY <2>4 DEF Pack, Unpack, DrainMove, DrainEnd, Done
    <3> QED  BY <3>1, <1>1, HeadEarly DEF Sound, Core
  <2> QED  BY <2>1, <2>2, <2>3, <2>4 DEF Script
<1>2. CASE LatePhase
  <2>1. CASE Pack \/ FinishMove \/ FinishRename \/ Unpack
    BY <1>2, <2>1, LatePack, FinishMoveKeeps, LateFinish, LateUnpack DEF Kept
  <2>2. CASE DrainMove \/ DrainEnd \/ CreateLayoutVersion \/ Done
    BY <1>2, <2>2, LateDrainMove, LateDrainEnd, LateVersion, LateDone DEF Kept
  <2>3. CASE FinishNothing
    <3>1. At("finish") /\ ~Exists(Tmp(Arg))
      BY <2>3 DEF FinishNothing
    <3>2. MovingOf = {Arg}
      BY <3>1, <1>2, LateNow
    <3> QED  BY <3>1, <3>2 DEF MovingOf
  <2>4. CASE WriteMark \/ Mount \/ Flag \/ SetProp \/ Clean \/ Migrate
             \/ Undisable \/ Disable \/ CreateSealed \/ Switch
    <3>1. PICK op \in {"mark", "mount", "flag", "setprop", "clean", "migrate", "undisable",
                       "disable", "create", "switch"} : At(op)
      BY <2>4 DEF WriteMark, Mount, Flag, SetProp, Clean, Migrate, Undisable, Disable,
                  CreateSealed, Switch
    <3>2. op \in {"pack", "finish", "unpack", "drain", "lv", "done"}
      BY <3>1, <1>2, LateNow
    <3> QED  BY <3>2
  <2> QED  BY <2>1, <2>2, <2>3, <2>4 DEF Script
<1> QED  BY <1>1, <1>2

\* No command runs.
LEMMA Idle ==
    ASSUME todo = <<>>
    PROVE  /\ EarlyPhase /\ \A op : ~HasStep(todo, op)
           /\ Target = mark
<1>1. Len(todo) = 0 /\ 1 .. 0 = {}
  OBVIOUS
<1> QED  BY <1>1 DEF EarlyPhase, Early, HasStep, Target

\* No command runs any more.
LEMMA IdleNext ==
    ASSUME todo' = <<>>
    PROVE  /\ EarlyPhase' /\ \A op : ~HasStep(todo', op)
           /\ Target' = mark'
<1>1. Len(todo') = 0 /\ 1 .. 0 = {}
  OBVIOUS
<1> QED  BY <1>1 DEF EarlyPhase, Early, HasStep, Target

\* A command starts.
LEMMA ProgramKeeps ==
    ASSUME Sound, todo = <<>>, fs' = fs, NEW w \in Systems,
           Early(todo', w, Systems, Systems, Systems, {0}), which' = w
    PROVE  /\ EarlyPhase' /\ Alone' /\ SetsAreWhole'
           /\ Tidy => Tidy'
           /\ UNCHANGED <<LegacyOf, MovingOf, SealedOf, OffOf>>
<1>1. UNCHANGED DirSets /\ Alone' /\ SetsAreWhole' /\ (Tidy => Tidy')
  BY SameData DEF Sound
<1>2. /\ LegacyOf' \in SUBSET Systems /\ MovingOf' \in SUBSET Systems
      /\ OffOf' \in SUBSET Systems /\ StaleOf' \in SUBSET {0}
  BY DEF LegacyOf, MovingOf, OffOf, StaleOf
<1>3. EarlyPhase'
  BY <1>2, EarlyLess DEF EarlyPhase
<1> QED  BY <1>1, <1>3 DEF DirSets

\* Commands of the menu, and get.
LEMMA UserKeeps ==
    ASSUME Sound, UserSave \/ UserEnable \/ UserDisable \/ UserGet
    PROVE  KeptEarly'
<1>1. /\ todo = <<>> /\ fs' = fs /\ UNCHANGED <<mark, power, dualprop, harm>> /\ power # "off"
      /\ mark \in Systems /\ which \in Systems
  BY DEF UserSave, UserEnable, UserDisable, UserGet, Start, Sound
<1>2. (\A op : ~HasStep(todo, op)) /\ Target = mark
  BY <1>1, Idle
<1>3. /\ harm = "none" => Tidy /\ mark \notin SealedOf /\ LegacyOf \subseteq {Other(mark)}
      /\ dualprop => Tidy
      /\ power = "recovery" /\ harm = "none" => which = mark
      /\ power = "android" => harm = "none" /\ ~dualprop
  BY <1>2 DEF Sound, Settled, PropTells, Callers
<1>4. CASE UserSave
  <2>1. PICK w \in Systems : todo' = SaveProgram(w) /\ which' = w
    BY <1>4 DEF UserSave, Start
  <2>2. power = "recovery"
    BY <1>4 DEF UserSave
  <2>3. /\ Early(todo', w, Systems, Systems, Systems, {0})
        /\ todo' # <<>> /\ Head(todo') = <<"mark", w>>
        /\ HasStep(todo', "done") /\ HasStep(todo', "clean")
        /\ ~HasStep(todo', "disable") /\ ~HasStep(todo', "setprop")
    BY <2>1, SaveIsEarly
  <2>4. Target' = w
    BY <2>3 DEF Target
  <2>5. EarlyPhase' /\ Alone' /\ SetsAreWhole' /\ (Tidy => Tidy')
    BY <2>1, <2>3, <1>1, ProgramKeeps
  <2>6. Settled' /\ PropTells'
    BY <2>3, <2>5, <1>1, <1>3 DEF Settled, PropTells
  <2>7. Callers'
    BY <2>1, <2>2, <2>3, <2>4, <1>1 DEF Callers
  <2> QED  BY <2>5, <2>6, <2>7 DEF KeptEarly
<1>5. CASE UserEnable
  <2>1. todo' = EnableProgram(which) /\ which' = which /\ power = "recovery" /\ ~dualprop
    BY <1>5 DEF UserEnable, Start
  <2>3. /\ Early(todo', which, Systems, Systems, Systems, {0})
        /\ todo' # <<>> /\ Head(todo')[1] # "mark"
        /\ HasStep(todo', "done") /\ HasStep(todo', "clean")
        /\ ~HasStep(todo', "disable")
    BY <2>1, <1>1, EnableIsEarly
  <2>4. Target' = mark
    BY <2>3, <1>1 DEF Target
  <2>5. EarlyPhase' /\ Alone' /\ SetsAreWhole'
    BY <2>1, <2>3, <1>1, ProgramKeeps
  <2>6. Settled' /\ PropTells'
    BY <2>1, <2>3, <1>1 DEF Settled, PropTells
  <2>7. Callers'
    BY <2>1, <2>3, <2>4, <1>1, <1>3 DEF Callers
  <2> QED  BY <2>5, <2>6, <2>7 DEF KeptEarly
<1>6. CASE UserDisable
  <2>1. todo' = DisableProgram /\ which' = which /\ power = "recovery" /\ dualprop
    BY <1>6 DEF UserDisable, Start
  <2>2. /\ Early(todo', which, Systems, Systems, Systems, {0})
        /\ todo' # <<>> /\ Head(todo')[1] # "mark"
        /\ ~HasStep(todo', "done")
    BY <2>1, <1>1, DisableIsEarly
  <2>3. Target' = mark
    BY <2>2, <1>1 DEF Target
  <2>4. /\ EarlyPhase' /\ Alone' /\ SetsAreWhole' /\ (Tidy => Tidy')
        /\ UNCHANGED <<LegacyOf, MovingOf, SealedOf, OffOf>>
    BY <2>1, <2>2, <1>1, ProgramKeeps
  <2>5. Settled' /\ PropTells'
    BY <2>1, <2>4, <1>1, <1>3 DEF Settled, PropTells
  <2>6. Callers'
    BY <2>1, <2>2, <2>3, <1>1, <1>3 DEF Callers
  <2> QED  BY <2>4, <2>5, <2>6 DEF KeptEarly
<1>7. CASE UserGet
  <2>1. todo' = Open /\ which' = which
    BY <1>7 DEF UserGet, Start
  <2>2. /\ Early(todo', which, Systems, Systems, Systems, {0})
        /\ todo' # <<>> /\ Head(todo')[1] # "mark"
        /\ ~HasStep(todo', "done") /\ ~HasStep(todo', "disable") /\ ~HasStep(todo', "setprop")
        /\ \A k \in 1 .. Len(todo') : todo'[k][1] \in {"clean", "finish", "migrate", "flag"}
    BY <2>1, <1>1, OpenIsEarly
  <2>3. Target' = mark
    BY <2>2, <1>1 DEF Target
  <2>4. /\ EarlyPhase' /\ Alone' /\ SetsAreWhole' /\ (Tidy => Tidy')
        /\ UNCHANGED <<LegacyOf, MovingOf, SealedOf, OffOf>>
    BY <2>1, <2>2, <1>1, ProgramKeeps
  <2>5. Settled' /\ PropTells'
    BY <2>4, <1>1, <1>3 DEF Settled, PropTells
  <2>6. Callers'
    BY <2>1, <2>2, <2>3, <1>1, <1>3 DEF Callers
  <2> QED  BY <2>4, <2>5, <2>6 DEF KeptEarly
<1> QED  BY <1>4, <1>5, <1>6, <1>7

\* The recovery system boots and runs load.
LEMMA RecoveryKeeps ==
    ASSUME Sound, todo = <<>>, BootRecovery
    PROVE  KeptEarly'
<1>1. /\ fs' = fs /\ UNCHANGED <<mark, dualprop, harm>> /\ power' = "recovery" /\ which' = mark
      /\ todo' = LoadProgram(mark) /\ mark \in Systems
  BY DEF BootRecovery, Sound
<1>2. ~dualprop
  BY DEF BootRecovery, Sound, Callers
<1>3. /\ Early(todo', mark, Systems, Systems, Systems, {0})
      /\ todo' # <<>> /\ Head(todo')[1] # "mark"
      /\ HasStep(todo', "done") /\ ~HasStep(todo', "disable")
  BY <1>1, LoadIsEarly
<1>4. Target' = mark
  BY <1>1, <1>3 DEF Target
<1>5. EarlyPhase' /\ Alone' /\ SetsAreWhole' /\ (Tidy => Tidy')
  BY <1>1, <1>3, ProgramKeeps
<1>6. Settled' /\ PropTells'
  BY <1>1, <1>2, <1>3, <1>5 DEF Settled, PropTells
<1>7. Callers'
  BY <1>1, <1>2, <1>3, <1>4 DEF Callers
<1> QED  BY <1>5, <1>6, <1>7 DEF KeptEarly

\* The running command is cut short: the write of the mark or a mount fails, or
\* the power is lost.
LEMMA CutKeeps ==
    ASSUME Sound, EarlyPhase \/ LatePhase, WriteMarkFails \/ Dies \/ PowerOff
    PROVE  KeptEarly'
<1>1. todo' = <<>> /\ fs' = fs /\ which' = which
  BY DEF WriteMarkFails, Dies, PowerOff
<1>2. EarlyPhase' /\ (\A op : ~HasStep(todo', op)) /\ Target' = mark'
  BY <1>1, IdleNext
<1>3. UNCHANGED DirSets /\ Alone' /\ SetsAreWhole' /\ (Tidy => Tidy')
  BY <1>1, SameData DEF Sound
<1>4. UNCHANGED <<LegacyOf, MovingOf, SealedOf, OffOf>>
  BY <1>3 DEF DirSets
<1>5. ASSUME NEW op \in {"mark", "mount", "clean"}, At(op)
      PROVE  /\ dualprop => Tidy
             /\ power = "android" => ~HasStep(todo, "done") /\ op = "clean"
             /\ power # "off"
  <2>1. EarlyPhase
    BY <1>5, LateNow
  <2>2. todo \in Seq(Steps) /\ todo # <<>> /\ Head(todo) = <<op, Arg>>
    BY <1>5, Argument DEF Sound, Core
  <2>3. 1 \in 1 .. Len(todo) /\ todo[1][1] = op
    BY <2>2
  <2>4. HasStep(todo, "clean")
    <3>1. op \in {"mark", "mount"} => HasStep(todo, "clean")
      BY <1>5, <2>1, HeadEarly DEF Sound, Core
    <3> QED  BY <3>1, <2>3 DEF HasStep
  <2>5. dualprop => Tidy
    BY <2>4 DEF Sound, PropTells
  <2>6. power = "android" => ~HasStep(todo, "done") /\ op = "clean"
    BY <2>3 DEF Sound, Callers, HasStep
  <2> QED  BY <2>5, <2>6, <1>5 DEF At
<1>7. CASE WriteMarkFails \/ Dies
  <2>1. /\ UNCHANGED <<power, dualprop>>
        /\ At("mark") \/ At("mount") \/ At("clean")
        /\ \/ harm' # "none" /\ (power = "android" => At("mark"))
           \/ power = "android" /\ UNCHANGED <<harm, mark>>
    BY <1>7 DEF WriteMarkFails, Dies, Interrupted
  <2>2. /\ dualprop => Tidy
        /\ power = "android" => ~HasStep(todo, "done") /\ ~At("mark")
    BY <2>1, <1>5 DEF At
  <2>3. PropTells'
    BY <2>1, <2>2, <1>3 DEF PropTells
  <2>4. Settled'
    <3> SUFFICES ASSUME harm' = "none"
                 PROVE  Tidy' /\ mark' \notin SealedOf' /\ LegacyOf' \subseteq {Other(mark')}
      BY DEF Settled
    <3>1. power = "android" /\ UNCHANGED <<harm, mark>>
      BY <2>1
    <3>2. Tidy /\ mark \notin SealedOf /\ LegacyOf \subseteq {Other(mark)}
      BY <3>1, <2>2 DEF Sound, Settled
    <3> QED  BY <3>1, <3>2, <1>3, <1>4
  <2>5. Callers'
    <3>1. 1 .. Len(todo') = {}
      BY <1>1
    <3>2. power = "android" => harm' = "none"
      BY <2>1, <2>2 DEF Sound, Callers
    <3>3. power = "recovery" => harm' # "none"
      BY <2>1
    <3> QED  BY <3>1, <3>2, <3>3, <2>1, <1>2 DEF Sound, Callers
  <2> QED  BY <2>3, <2>4, <2>5, <1>2, <1>3 DEF KeptEarly
<1>6. CASE PowerOff
  <2>1. /\ power' = "off" /\ dualprop' = FALSE /\ mark' = mark
        /\ harm' = "none" => harm = "none" /\ todo = <<>>
    BY <1>6 DEF PowerOff, Interrupted
  <2>2. Settled'
    <3> SUFFICES ASSUME harm' = "none"
                 PROVE  Tidy' /\ mark' \notin SealedOf' /\ LegacyOf' \subseteq {Other(mark')}
      BY DEF Settled
    <3>1. harm = "none" /\ \A op : ~HasStep(todo, op)
      BY <2>1, Idle
    <3>2. Tidy /\ mark \notin SealedOf /\ LegacyOf \subseteq {Other(mark)}
      BY <3>1 DEF Sound, Settled
    <3> QED  BY <3>2, <2>1, <1>3, <1>4
  <2>3. PropTells' /\ Callers'
    BY <2>1, <1>2 DEF PropTells, Callers
  <2> QED  BY <2>2, <2>3, <1>2, <1>3 DEF KeptEarly
<1> QED  BY <1>6, <1>7

\* Android runs only where the data is settled.
LEMMA AndroidIsSettled ==
    ASSUME Sound, EarlyPhase \/ LatePhase, power = "android"
    PROVE  /\ EarlyPhase /\ harm = "none" /\ ~HasStep(todo, "done")
           /\ Tidy /\ mark \notin SealedOf /\ LegacyOf \subseteq {Other(mark)}
           /\ \A k \in 1 .. Len(todo) : todo[k][1] \in {"clean", "finish", "migrate", "flag"}
<1>1. /\ harm = "none"
      /\ \A k \in 1 .. Len(todo) : todo[k][1] \in {"clean", "finish", "migrate", "flag"}
  BY DEF Sound, Callers
<1>2. ~HasStep(todo, "done")
  BY <1>1 DEF HasStep
<1>3. ~LatePhase
  BY <1>2, LateMeans DEF LatePhase, Sound, Core, ProgramFits
<1>4. Tidy /\ mark \notin SealedOf /\ LegacyOf \subseteq {Other(mark)}
  BY <1>1, <1>2 DEF Sound, Settled
<1> QED  BY <1>1, <1>2, <1>3, <1>4

\* The live data grows in Android: by a set of its own, or only by a version.
LEMMA GrowthKeeps ==
    ASSUME Sound, EarlyPhase \/ LatePhase, power = "android",
           UNCHANGED <<mark, power, which, enabled, dualprop, todo, harm>>,
           NEW new,
           \/ new = {}
           \/ fs[Live] \subseteq {LayoutVersion} /\ \E b \in 0 .. MaxBatch : new = Batch(b),
           fs' = [fs EXCEPT ![Live] = @ \cup new \cup {LayoutVersion}], fs'[Live] # NoDir
    PROVE  KeptEarly' /\ UNCHANGED <<SealedOf, OffOf, MovingOf>>
<1>1. /\ EarlyPhase /\ harm = "none" /\ Tidy
      /\ mark \notin SealedOf /\ LegacyOf \subseteq {Other(mark)}
      /\ \A k \in 1 .. Len(todo) : todo[k][1] \in {"clean", "finish", "migrate", "flag"}
  BY AndroidIsSettled
<1>2. /\ fs'[Live] = fs[Live] \cup new \cup {LayoutVersion}
      /\ \A d \in Dirs : d # Live => fs'[d] = fs[d]
      /\ fs[Live] # NoDir
  BY DirNames DEF Sound, Core, DirsOK, Exists
<1>3. \A d \in Dirs : Exists(d)' <=> Exists(d)
  BY <1>2 DEF Exists
<1>4. UNCHANGED DirSets
  BY <1>3, SameDirSets
<1>5. UNCHANGED <<LegacyOf, MovingOf, SealedOf, OffOf>>
  BY <1>4 DEF DirSets
<1>6. MovingOf = {} /\ SealedOf # Systems
  BY <1>1 DEF Tidy
<1>7. Alone' /\ Tidy'
  BY <1>2, <1>5, <1>6 DEF Sound, Alone, Tidy
<1>8. Whole(Active)'
  <2>1. fs[Live] \subseteq UserEntries \cup {LayoutVersion}
    BY <1>2, DirNames, Holds DEF Sound, Exists
  <2>2. new \subseteq UserEntries
    BY DEF UserEntries
  <2>3. Active = fs[Live] /\ Active' = fs[Live] \cup new \cup {LayoutVersion}
    BY <2>1, <2>2, <1>2, <1>5, <1>6 DEF Active
  <2>4. Whole(fs[Live])
    BY <2>3 DEF Sound, SetsAreWhole
  <2>5. CASE new = {}
    <3>1. Active' = fs[Live] \cup {LayoutVersion}
      BY <2>3, <2>5
    <3> QED  BY <3>1, <2>4, WholeFacts
  <2>6. CASE fs[Live] \subseteq {LayoutVersion} /\ \E b \in 0 .. MaxBatch : new = Batch(b)
    <3>1. PICK b \in 0 .. MaxBatch : new = Batch(b)
      BY <2>6
    <3>2. Active' \ {LayoutVersion} = Batch(b)
      BY <3>1, <2>2, <2>3, <2>6, Distinct
    <3> QED  BY <3>2 DEF Whole
  <2> QED  BY <2>5, <2>6
<1>9. SetsAreWhole'
  <2>1. \A i \in Systems : \A d \in {Sealed(i), Off(i), Legacy(i)} : fs'[d] = fs[d]
    BY <1>2, DirNames
  <2> QED  BY <2>1, <1>8 DEF Sound, SetsAreWhole, Exists
<1>10. Target' = Target /\ StaleOf' = StaleOf
  BY <1>5 DEF Target, StaleOf
<1>11. EarlyPhase' /\ Settled' /\ PropTells' /\ Callers'
  <2>1. EarlyPhase'
    BY <1>1, <1>5, <1>10 DEF EarlyPhase
  <2>2. Settled' /\ PropTells'
    BY <1>1, <1>5, <1>7 DEF Settled, PropTells
  <2>3. Callers'
    BY <1>10 DEF Sound, Callers
  <2> QED  BY <2>1, <2>2, <2>3
<1> QED  BY <1>5, <1>7, <1>9, <1>11 DEF KeptEarly

\* Android creates its directories: all of them, for it finds none or all.
LEMMA WritesKeep ==
    ASSUME Sound, EarlyPhase \/ LatePhase, AndroidWrites, Core'
    PROVE  KeptEarly'
<1>1. /\ power = "android" /\ UNCHANGED <<mark, power, which, enabled, dualprop, todo, harm>>
      /\ fs'[Live] # NoDir
  BY DEF AndroidWrites, Core, DirsOK, Exists
<1>2. PICK b \in 1 .. MaxBatch :
          LET missing == {e \in Batch(b) : \A f \in fs[Live] : f.name # e.name}
          IN  /\ missing # {}
              /\ fs' = [fs EXCEPT ![Live] = @ \cup missing \cup {LayoutVersion}]
  BY DEF AndroidWrites
<1> DEFINE missing == {e \in Batch(b) : \A f \in fs[Live] : f.name # e.name}
<1>3. missing # {} /\ fs' = [fs EXCEPT ![Live] = @ \cup missing \cup {LayoutVersion}]
  BY <1>2
<1>4. Whole(fs[Live])
  <2>1. MovingOf = {}
    BY <1>1, AndroidIsSettled DEF Tidy
  <2>2. fs[Live] \subseteq UserEntries \cup {LayoutVersion}
    BY DirNames, Holds DEF Sound, Core, DirsOK
  <2>3. Active = fs[Live]
    BY <2>1, <2>2 DEF Active
  <2> QED  BY <2>3 DEF Sound, SetsAreWhole
<1>5. fs[Live] \subseteq {LayoutVersion}
  <2> SUFFICES ASSUME NEW c \in 0 .. MaxBatch, fs[Live] \ {LayoutVersion} = Batch(c) PROVE FALSE
    BY <1>4 DEF Whole
  <2>1. PICK e \in missing : TRUE
    BY <1>3
  <2>2. PICK n \in Names : e = [name |-> n, batch |-> b]
    BY DEF Batch
  <2>3. [name |-> n, batch |-> c] \in fs[Live]
    BY DEF Batch
  <2>4. [name |-> n, batch |-> c].name = e.name
    BY <2>2
  <2> QED  BY <2>3, <2>4
<1>6. missing = Batch(b)
  <2>1. \A e \in Batch(b) : e.name \in Names
    BY DEF Batch
  <2>2. LayoutVersion.name = ".layout_version"
    BY DEF LayoutVersion
  <2>3. \A e \in Batch(b) : LayoutVersion.name # e.name
    BY <2>1, <2>2, DualAssumption
  <2> QED  BY <2>3, <1>5
<1>7. b \in 0 .. MaxBatch
  <2>1. MaxBatch \in Nat
    BY DualAssumption
  <2> QED  BY <2>1
<1> HIDE DEF missing
<1> QED  BY <1>1, <1>3, <1>5, <1>6, <1>7, GrowthKeeps

\* upgrade_layout.sh finds nothing of dualboot.sh where it moves files.
LEMMA UpgradeKeeps ==
    ASSUME Sound, NothingSwept, todo = <<>>, Upgrade, Core'
    PROVE  KeptEarly' /\ NothingSwept'
<1>1. /\ power = "android" /\ UNCHANGED <<mark, power, which, enabled, dualprop, todo, harm>>
      /\ fs'[Live] # NoDir
  BY DEF Upgrade, VersionKnown, MakeMedia0, MoveFile, SweepDirectory, MoveEnds, WriteVersion,
         UpgradeStep, Core, DirsOK, Exists
<1>2. EarlyPhase
  BY Idle
<1>3. Tidy
  BY <1>1, <1>2, AndroidIsSettled
<1>4. CASE VersionKnown \/ MakeMedia0 \/ MoveFile \/ MoveEnds
  <2>1. UNCHANGED <<fs, swept>>
    BY <1>4 DEF VersionKnown, MakeMedia0, MoveFile, MoveEnds
  <2>2. UNCHANGED DirSets /\ Alone' /\ SetsAreWhole' /\ (Tidy' <=> Tidy)
    BY <2>1, SameData DEF Sound
  <2>3. UNCHANGED <<LegacyOf, MovingOf, SealedOf, OffOf>>
    BY <2>2 DEF DirSets
  <2>4. Target' = Target /\ StaleOf' = StaleOf
    BY <1>1, <2>3 DEF Target, StaleOf
  <2>5. EarlyPhase' /\ Settled' /\ PropTells' /\ Callers'
    <3>1. EarlyPhase'
      BY <1>1, <1>2, <2>3, <2>4 DEF EarlyPhase
    <3>2. Settled' /\ PropTells'
      BY <1>1, <2>2, <2>3 DEF Sound, Settled, PropTells
    <3>3. Callers'
      BY <1>1, <2>4 DEF Sound, Callers
    <3> QED  BY <3>1, <3>2, <3>3
  <2>6. NothingSwept'
    <3>1. CASE MakeMedia0
      <4>1. LayoutVersion \notin fs[Live]
        BY <3>1 DEF MakeMedia0
      <4>2. SealedOf = {} /\ OffOf = {} /\ MovingOf = {}
        BY <4>1, <1>3 DEF Sound, Alone, Tidy
      <4> QED  BY <4>2, <2>1, <2>3 DEF NothingSwept
    <3>2. CASE VersionKnown \/ MoveFile \/ MoveEnds
      <4>1. upg' = "move" => upg = "move"
        BY <3>2 DEF VersionKnown, MoveFile, MoveEnds, UpgradeStep
      <4> QED  BY <4>1, <2>1, <2>3 DEF NothingSwept
    <3> QED  BY <3>1, <3>2, <1>4
  <2> QED  BY <2>2, <2>5, <2>6 DEF KeptEarly
<1>5. CASE SweepDirectory
  <2>1. upg = "move"
    BY <1>5 DEF SweepDirectory, UpgradeStep
  <2>2. PICK p \in MediaDirs : TRUE
    BY <1>5 DEF SweepDirectory
  <2>3. Exists(p) /\ \E i \in Systems : p \in {Sealed(i), Tmp(i), Off(i)}
    BY <2>2 DEF MediaDirs, Dirs, Live, Sealed, Tmp, Off
  <2> QED  BY <2>1, <2>3 DEF NothingSwept, SealedOf, OffOf, MovingOf
<1>6. CASE WriteVersion
  <2>1. /\ fs' = [fs EXCEPT ![Live] = @ \cup {} \cup {LayoutVersion}]
        /\ swept' = swept /\ upg' # "move"
    BY <1>6 DEF WriteVersion, UpgradeStep
  <2>2. KeptEarly'
    BY <1>1, <1>2, <2>1, GrowthKeeps
  <2> QED  BY <2>1, <2>2 DEF NothingSwept
<1> QED  BY <1>4, <1>5, <1>6 DEF Upgrade

-----------------------------------------------------------------------------
(* The second invariant is inductive. *)

\* The two invariants together are what the steps rely on.
LEMMA PlaceParts ==
    ASSUME IInv, InPlace
    PROVE  Sound /\ (EarlyPhase \/ LatePhase) /\ NothingSwept /\ NothingRunsBeside
<1>1. Core /\ OthersOK /\ NothingRunsBeside
  BY CoreParts
<1> QED  BY <1>1 DEF InPlace, Sound, OthersOK

\* What they keep is the second invariant.
LEMMA PlaceNext ==
    ASSUME Kept', NothingSwept'
    PROVE  InPlace'
BY DEF Kept, KeptEarly, KeptLate, InPlace

\* A device before its first dualboot command.
LEMMA InitInPlace == UpgradeInit => JInv
<1> SUFFICES ASSUME UpgradeInit PROVE InPlace
  BY DEF JInv
<1>1. /\ mark \in Systems /\ todo = <<>> /\ power = "off" /\ which = mark /\ harm = "none"
      /\ dualprop = FALSE /\ upg = "idle" /\ swept = {}
  BY DEF UpgradeInit, Init
<1>2. PICK old, new, multiuser \in BOOLEAN :
        /\ old => multiuser
        /\ fs = [p \in Dirs |->
                  IF p = Live THEN Batch(1) \cup IF multiuser THEN {LayoutVersion} ELSE {}
                  ELSE IF p = Legacy(Other(mark)) /\ old THEN Batch(0)
                  ELSE IF p = Sealed(Other(mark)) /\ old /\ new THEN {LayoutVersion}
                  ELSE NoDir]
  BY DEF UpgradeInit, Init
<1> DEFINE a == Other(mark)
<1>3. a \in Systems /\ a # mark /\ {a} # Systems
  BY <1>1 DEF Other, Systems
<1>4. /\ fs[Live] \in {Batch(1), Batch(1) \cup {LayoutVersion}}
      /\ fs[Legacy(a)] = (IF old THEN Batch(0) ELSE NoDir)
      /\ fs[Sealed(a)] = (IF old /\ new THEN {LayoutVersion} ELSE NoDir)
      /\ \A d \in Dirs : d \notin {Live, Legacy(a), Sealed(a)} => fs[d] = NoDir
      /\ old => LayoutVersion \in fs[Live]
  BY <1>2, <1>3, DirNames
<1> HIDE DEF a
<1>5. /\ MovingOf = {} /\ OffOf = {} /\ SealedOf \subseteq {a} /\ LegacyOf \subseteq {a}
      /\ SealedOf \cup LegacyOf # {} => LayoutVersion \in fs[Live]
  <2>1. \A i \in Systems : fs[Tmp(i)] = NoDir /\ fs[Off(i)] = NoDir
    BY <1>3, <1>4, DirNames
  <2>2. \A i \in Systems : i # a => fs[Sealed(i)] = NoDir /\ fs[Legacy(i)] = NoDir
    BY <1>3, <1>4, DirNames
  <2>3. MovingOf = {} /\ OffOf = {}
    BY <2>1 DEF MovingOf, OffOf, Exists
  <2>4. SealedOf \subseteq {a} /\ LegacyOf \subseteq {a}
    BY <2>2 DEF SealedOf, LegacyOf, Exists
  <2>5. SealedOf \cup LegacyOf # {} => LayoutVersion \in fs[Live]
    BY <2>4, <1>4 DEF SealedOf, LegacyOf, Exists
  <2> QED  BY <2>3, <2>4, <2>5
<1>6. Alone /\ Tidy
  BY <1>3, <1>5 DEF Alone, Tidy
<1>7. SetsAreWhole
  <2>1. 0 \in 0 .. MaxBatch /\ 1 \in 0 .. MaxBatch
    <3>1. MaxBatch \in Nat \ {0}
      BY DualAssumption
    <3> QED  BY <3>1
  <2>2. \A b \in 0 .. MaxBatch : Whole(Batch(b)) /\ Whole(Batch(b) \cup {LayoutVersion})
    <3> SUFFICES ASSUME NEW b \in 0 .. MaxBatch
                 PROVE  Whole(Batch(b)) /\ Whole(Batch(b) \cup {LayoutVersion})
      OBVIOUS
    <3>1. Batch(b) \subseteq UserEntries
      BY DEF UserEntries
    <3>2. Batch(b) \ {LayoutVersion} = Batch(b)
      BY <3>1, Distinct
    <3>3. Whole(Batch(b))
      BY <3>2 DEF Whole
    <3> QED  BY <3>3, WholeFacts
  <2>3. Active = fs[Live]
    <3>1. Batch(1) \subseteq UserEntries
      BY <2>1 DEF UserEntries
    <3> QED  BY <3>1, <1>4, <1>5 DEF Active
  <2>4. Whole(Active)
    BY <2>1, <2>2, <2>3, <1>4
  <2>5. Whole({LayoutVersion})
    BY DEF Whole
  <2>6. ASSUME NEW i \in Systems, NEW p \in {Sealed(i), Off(i), Legacy(i)}, fs[p] # NoDir
        PROVE  Whole(fs[p])
    <3>1. p \in Dirs /\ p # Live
      BY DirNames
    <3>2. p \in {Legacy(a), Sealed(a)}
      BY <3>1, <2>6, <1>4
    <3>3. fs[p] \in {Batch(0), {LayoutVersion}}
      BY <3>2, <2>6, <1>4
    <3> QED  BY <3>3, <2>1, <2>2, <2>5
  <2> QED  BY <2>4, <2>6 DEF SetsAreWhole, Exists
<1>8. EarlyPhase
  BY <1>1, Idle
<1>9. Settled /\ PropTells
  BY <1>1, <1>3, <1>5, <1>6 DEF Settled, PropTells, a
<1>10. Callers
  <2>1. Len(todo) = 0 /\ 1 .. 0 = {}
    BY <1>1
  <2> QED  BY <2>1, <1>1, Idle DEF Callers
<1>11. NothingSwept
  BY <1>1 DEF NothingSwept
<1> QED  BY <1>6, <1>7, <1>8, <1>9, <1>10, <1>11 DEF InPlace

\* Every step keeps the second invariant.
LEMMA NextInPlace == IInv /\ JInv /\ [UpgradeNext]_allVars => JInv'
<1> SUFFICES ASSUME IInv, JInv, [UpgradeNext]_allVars, Careful' PROVE InPlace'
  BY DEF JInv
<1>1. CASE Upgrade
  <2>1. harm' = harm /\ upg # "idle"
    BY <1>1 DEF Upgrade, VersionKnown, MakeMedia0, MoveFile, SweepDirectory, MoveEnds, WriteVersion,
                UpgradeStep
  <2>2. InPlace
    BY <2>1 DEF JInv, Careful
  <2>3. Sound /\ NothingSwept /\ todo = <<>>
    BY <2>1, <2>2, PlaceParts DEF NothingRunsBeside
  <2>4. Core'
    BY <1>1, <2>3, UpgradePreserves DEF Sound
  <2>5. KeptEarly' /\ NothingSwept'
    BY <1>1, <2>3, <2>4, UpgradeKeeps
  <2> QED  BY <2>5, PlaceNext DEF Kept
<1>2. CASE BootAndroid /\ upg' = "version" /\ UNCHANGED <<media, media0, swept, cut>>
  <2>1. /\ power = "off" /\ power' = "android" /\ fs' = fs
        /\ UNCHANGED <<mark, which, enabled, dualprop, todo>>
        /\ harm' = IF harm = "interrupted" THEN "careless" ELSE harm
    BY <1>2 DEF BootAndroid
  <2>2. harm' = harm /\ harm # "careless" /\ harm # "interrupted"
    BY <2>1 DEF Careful
  <2>3. InPlace
    BY <2>2 DEF JInv, Careful
  <2>4. Sound /\ NothingSwept /\ todo = <<>>
    BY <2>1, <2>3, PlaceParts DEF NothingRunsBeside
  <2>5. harm = "none"
    BY <2>2, CoreParts DEF OthersOK
  <2>6. UNCHANGED DirSets /\ Alone' /\ SetsAreWhole' /\ (Tidy' <=> Tidy)
    BY <2>1, <2>4, SameData DEF Sound
  <2>7. todo' = <<>>
    BY <2>1, <2>4
  <2>8. EarlyPhase' /\ \A op : ~HasStep(todo', op)
    BY <2>7, IdleNext
  <2>9. Settled' /\ PropTells'
    BY <2>1, <2>2, <2>4, <2>6 DEF Sound, Settled, PropTells, DirSets
  <2>10. Callers'
    <3>1. Len(todo') = 0 /\ 1 .. 0 = {}
      BY <2>7
    <3> QED  BY <3>1, <2>1, <2>2, <2>4, <2>5, <2>8 DEF Sound, Callers
  <2>11. NothingSwept'
    BY <1>2, <2>4 DEF NothingSwept
  <2> QED  BY <2>6, <2>8, <2>9, <2>10, <2>11, PlaceNext DEF Kept, KeptEarly
<1>3. CASE /\ PowerOff /\ upg' = "idle" /\ cut' = (cut \/ upg = "move")
           /\ UNCHANGED <<media, media0, swept>>
  <2>1. harm # "careless"
    BY <1>3 DEF PowerOff, Interrupted, Careful
  <2>2. Sound /\ (EarlyPhase \/ LatePhase) /\ NothingSwept
    BY <2>1, PlaceParts DEF JInv, Careful
  <2>3. KeptEarly'
    BY <1>3, <2>2, CutKeeps
  <2>4. NothingSwept'
    BY <1>3, <2>2 DEF NothingSwept
  <2> QED  BY <2>3, <2>4, PlaceNext DEF Kept
<1>4. CASE upg = "idle" /\ Running /\ UNCHANGED upgVars
  <2>1. upg' = "idle" /\ swept' = swept
    BY <1>4 DEF upgVars
  <2>2. ~UserSet
    BY DEF UserSet, Careful
  <2>3. Core'
    BY <1>4, <2>1, CoreParts, RunningPreserves
  <2>4. harm # "careless"
    <3>1. CASE Script
      <4>1. harm = "careless" => harm' = "careless"
        BY <3>1 DEF Script, WriteMark, Mount, Clean, FinishMove, FinishRename, FinishNothing,
             Migrate, Flag, SetProp, Switch, Pack, Unpack, DrainMove, DrainEnd,
             CreateLayoutVersion, Undisable, Disable, CreateSealed, Done
      <4> QED  BY <4>1 DEF Careful
    <3>2. CASE ~Script
      BY <1>4, <2>2, <3>2 DEF Running, WriteMarkFails, Dies, Interrupted, UserSave, UserEnable, UserDisable,
             UserGet, BootRecovery, AndroidWrites, Careful
    <3> QED  BY <3>1, <3>2
  <2>5. Sound /\ (EarlyPhase \/ LatePhase) /\ NothingSwept /\ NothingRunsBeside
    BY <2>4, PlaceParts DEF JInv, Careful
  <2>6. Kept'
    <3>1. CASE Script
      BY <3>1, <2>5, ScriptKeeps
    <3>2. CASE WriteMarkFails \/ Dies
      BY <3>2, <2>5, CutKeeps DEF Kept
    <3>3. CASE UserSave \/ UserEnable \/ UserDisable \/ UserGet
      BY <3>3, <2>5, UserKeeps DEF Kept
    <3>4. CASE BootRecovery
      <4>1. todo = <<>>
        BY <3>4, <2>5 DEF BootRecovery, NothingRunsBeside
      <4> QED  BY <3>4, <4>1, <2>5, RecoveryKeeps DEF Kept
    <3>5. CASE AndroidWrites
      BY <3>5, <2>3, <2>5, WritesKeep DEF Kept
    <3> QED  BY <3>1, <3>2, <3>3, <3>4, <3>5, <1>4, <2>2 DEF Running
  <2>7. NothingSwept'
    BY <2>1, <2>5 DEF NothingSwept
  <2> QED  BY <2>6, <2>7, PlaceNext
<1>5. CASE UNCHANGED allVars
  <2>1. UNCHANGED <<mark, fs, created, power, which, enabled, dualprop, todo, harm>>
        /\ upg' = upg /\ swept' = swept
    BY <1>5 DEF allVars, vars, upgVars
  <2>2. Sound /\ (EarlyPhase \/ LatePhase) /\ NothingSwept
    BY <2>1, PlaceParts DEF JInv, Careful
  <2>3. UNCHANGED DirSets /\ Alone' /\ SetsAreWhole' /\ (Tidy' <=> Tidy)
    BY <2>1, <2>2, SameData DEF Sound
  <2>4. UNCHANGED <<LegacyOf, MovingOf, SealedOf, OffOf>>
    BY <2>3 DEF DirSets
  <2>5. Target' = Target /\ StaleOf' = StaleOf
    BY <2>1, <2>4 DEF Target, StaleOf
  <2>6. (EarlyPhase => EarlyPhase') /\ (LatePhase => LatePhase')
    BY <2>1, <2>3, <2>4, <2>5 DEF EarlyPhase, LatePhase
  <2>7. Settled' /\ PropTells'
    BY <2>1, <2>2, <2>3, <2>4 DEF Sound, Settled, PropTells
  <2>8. Callers'
    BY <2>1, <2>2, <2>5 DEF Sound, Callers
  <2>9. NothingSwept'
    BY <2>1, <2>2, <2>4 DEF NothingSwept
  <2> QED  BY <2>2, <2>3, <2>6, <2>7, <2>8, <2>9, PlaceNext DEF Kept, KeptEarly, KeptLate
<1> QED  BY <1>1, <1>2, <1>3, <1>4, <1>5 DEF UpgradeNext

-----------------------------------------------------------------------------
(* Theorems about the places of the data. *)

\* The second invariant holds in every reachable state: with power losses,
\* failed mounts and failed writes of the mark at any point, until Android runs
\* on what an interrupted command left, or set is used.
THEOREM PlacesInvariance == UpgradeSpec => []JInv
BY Invariance, InitInPlace, NextInPlace, PTL DEF UpgradeSpec

\* With dual data enabled, the live data belongs to the system that boots next,
\* and nothing is half moved, once a command of dualboot.sh has run to its end
\* with the menu's property and the mark in agreement, whatever failed or was
\* interrupted before.
THEOREM DataFollows == UpgradeSpec => []DataFollowsMark
<1>1. IInv /\ JInv => DataFollowsMark
  <2> SUFFICES ASSUME IInv, JInv, AtRest, NEW i \in Systems, Exists(Sealed(i))
               PROVE  /\ Exists(Sealed(Other(mark))) /\ ~Exists(Sealed(mark))
                      /\ \A j \in Systems : ~Exists(Tmp(j))
    BY DEF DataFollowsMark
  <2>1. todo = <<>> /\ harm = "none"
    BY DEF AtRest
  <2>2. InPlace
    BY <2>1 DEF JInv, Careful
  <2>3. \A op : ~HasStep(todo, op)
    BY <2>1, Idle
  <2>4. Tidy /\ mark \notin SealedOf /\ mark \in Systems
    BY <2>1, <2>2, <2>3, PlaceParts DEF InPlace, Settled, Sound
  <2>5. ~Exists(Sealed(mark)) /\ i # mark
    BY <2>4 DEF SealedOf
  <2>6. i = Other(mark)
    BY <2>4, <2>5 DEF Systems, Other
  <2> QED  BY <2>4, <2>5, <2>6 DEF Tidy, MovingOf
<1> QED  BY <1>1, Invariance, PlacesInvariance, PTL

\* What enable takes for the current system is the system of the mark, unless a
\* write of the mark has failed or a command was interrupted and none has
\* completed for the system of the mark since.
THEOREM HintIsRight == UpgradeSpec => []HintIsCurrentSystem
<1>1. IInv /\ JInv => HintIsCurrentSystem
  <2> SUFFICES ASSUME IInv, JInv, At("create"), harm = "none"
               PROVE  Arg = mark
    BY DEF HintIsCurrentSystem
  <2>1. InPlace
    BY DEF JInv, Careful
  <2>2. todo \in Seq(Steps) /\ todo # <<>> /\ Head(todo)[1] = "create" /\ power # "off"
    BY DEF At, IInv, ProgramFits
  <2>3. Len(todo) \in Nat \ {0} /\ Head(todo) = todo[1]
    BY <2>2, TailFacts
  <2>4. ~LatePhase
    <3>1. which \in Systems
      BY DEF IInv, TypeOK
    <3>2. SUFFICES ASSUME Late(todo, which) PROVE FALSE
      BY DEF LatePhase
    <3> QED  BY <2>2, <3>1, <3>2, LateMeans
  <2>5. Arg = which
    <3>1. EarlyPhase
      BY <2>1, <2>4 DEF InPlace
    <3> QED  BY <3>1, <2>2, <2>3 DEF EarlyPhase, Early, Prepared, Arg
  <2>6. power = "recovery"
    BY <2>1, <2>2, <2>3 DEF InPlace, Callers, IInv, TypeOK
  <2> QED  BY <2>1, <2>2, <2>5, <2>6 DEF InPlace, Callers, Target
<1> QED  BY <1>1, Invariance, PlacesInvariance, PTL

\* What one system created together is in one directory, and what it did not is
\* in another, whatever was interrupted before.
THEOREM SetsStayWhole == UpgradeSpec => []DataSetsStayWhole
<1>1. IInv /\ JInv => DataSetsStayWhole
  <2> SUFFICES ASSUME IInv, JInv, AtRest, NEW p \in Dirs, NEW q \in Dirs,
                      NEW e \in fs[p] \cap created, NEW f \in fs[q] \cap created
               PROVE  e.batch = f.batch <=> p = q
    BY DEF DataSetsStayWhole
  <2>1. todo = <<>> /\ harm = "none"
    BY DEF AtRest
  <2>2. InPlace
    BY <2>1 DEF JInv, Careful
  <2>3. Sound
    BY <2>2, PlaceParts
  <2>4. MovingOf = {}
    <3>1. \A op : ~HasStep(todo, op)
      BY <2>1, Idle
    <3> QED  BY <3>1, <2>1, <2>2 DEF InPlace, Settled, Tidy
  <2>5. e \in UserEntries /\ f \in UserEntries /\ OnePlace
    BY <2>3 DEF Sound, Core, DataOK
  <2>6. ASSUME NEW d \in Dirs, NEW x \in fs[d] \cap created
        PROVE  /\ x # LayoutVersion
               /\ \E b \in 0 .. MaxBatch : fs[d] \ {LayoutVersion} = Batch(b)
    <3>1. x \in UserEntries /\ x # LayoutVersion /\ Exists(d)
      BY <2>3, Distinct DEF Sound, Core, Exists
    <3>2. Whole(fs[d])
      <4>1. CASE d = Live
        <5>1. fs[d] \subseteq UserEntries \cup {LayoutVersion}
          BY <2>3, <3>1, Holds DEF Sound
        <5>2. Active = fs[d]
          BY <5>1, <4>1, <2>4 DEF Active
        <5> QED  BY <5>2, <2>3 DEF Sound, SetsAreWhole
      <4>2. CASE d # Live
        <5>1. PICK i \in Systems : d \in {Sealed(i), Tmp(i), Off(i), Legacy(i)}
          BY <4>2 DEF Dirs, Sealed, Tmp, Off, Legacy
        <5>2. d # Tmp(i)
          BY <3>1, <2>4 DEF MovingOf
        <5> QED  BY <5>1, <5>2, <3>1, <2>3 DEF Sound, SetsAreWhole
      <4> QED  BY <4>1, <4>2
    <3>3. ~(fs[d] \subseteq {LayoutVersion})
      BY <3>1
    <3> QED  BY <3>1, <3>2, <3>3 DEF Whole
  <2>7. PICK b \in 0 .. MaxBatch : fs[p] \ {LayoutVersion} = Batch(b)
    BY <2>6
  <2>8. PICK c \in 0 .. MaxBatch : fs[q] \ {LayoutVersion} = Batch(c)
    BY <2>6
  <2>9. e # LayoutVersion /\ f # LayoutVersion
    BY <2>6
  <2>10. e \in Batch(b) /\ f \in Batch(c)
    BY <2>7, <2>8, <2>9
  <2>11. e.batch = b /\ f.batch = c
    BY <2>10 DEF Batch
  <2>12. ASSUME p = q PROVE b = c
    <3>1. f \in Batch(b)
      BY <2>12, <2>7, <2>9
    <3> QED  BY <3>1, <2>11 DEF Batch
  <2>13. ASSUME b = c PROVE p = q
    <3>1. e \in fs[p] /\ e \in fs[q]
      BY <2>13, <2>8, <2>10
    <3> QED  BY <3>1, <2>5 DEF OnePlace
  <2> QED  BY <2>11, <2>12, <2>13
<1> QED  BY <1>1, Invariance, PlacesInvariance, PTL

\* upgrade_layout.sh moves the user's files, all of them, and never takes the
\* sealed data of the other system for files.
THEOREM FilesOnly == UpgradeSpec => []UpgradeMovesFilesOnly
<1>1. IInv /\ JInv => UpgradeMovesFilesOnly
  <2> SUFFICES ASSUME IInv, JInv PROVE UpgradeMovesFilesOnly
    OBVIOUS
  <2>1. upg = "idle" /\ media0 # NoDir /\ ~cut => media = {}
    BY DEF IInv, FilesMoved
  <2>2. harm # "careless" => swept = {}
    BY DEF JInv, Careful, InPlace, NothingSwept
  <2> QED  BY <2>1, <2>2 DEF UpgradeMovesFilesOnly
<1> QED  BY <1>1, Invariance, PlacesInvariance, PTL
=============================================================================

---------------------------- MODULE ConfigProofs ----------------------------
(***************************************************************************)
(* Proof, for all files and all command lines of any length, that the      *)
(* daemon starts with the last word on each field of its configuration.    *)
(***************************************************************************)
EXTENDS Config, Lemmas

Fields == DOMAIN Defaults
Lines  == [section : STRING, key : STRING, val : STRING]

\* A word: a line of a file, or an option other than -c.
Words == Lines \cup {o \in Options : o.opt # "c"}

\* The configuration that the words w add up to.
Shown(w) == [field \in Fields |-> LastWord(w, field)]

LEMMA FieldNames ==
  Fields = {"no_route", "no_dns", "log_level", "static_ip", "gateway", "netmask",
            "verbose", "ui_pid", "watch_mode"}
BY DEF Fields, Defaults

-----------------------------------------------------------------------------
(* One more word *)

\* The last of the words settles the field if it sets it.
LEMMA LastWordOfAppend ==
  ASSUME NEW w \in Seq(Words), NEW x \in Words, NEW field
  PROVE  LastWord(Append(w, x), field)
           = IF Sets(x, field) THEN Value(x, field) ELSE LastWord(w, field)
<1> DEFINE v == Append(w, x)
<1>1. PICK n \in Nat : n = Len(w)
  OBVIOUS
<1>2. v \in Seq(Words) /\ Len(v) = n + 1 /\ v[n + 1] = x
      /\ \A i \in 1 .. n : v[i] = w[i]
  BY <1>1
<1> HIDE DEF v
<1>3. \A i : i \in 1 .. n + 1 <=> (i = n + 1 \/ i \in 1 .. n)
  BY <1>1
<1>4. CASE Sets(x, field)
  <2>1. n + 1 \in Said(v, field) /\ \A j \in Said(v, field) : j \in 1 .. n + 1
    BY <1>2, <1>3, <1>4 DEF Said
  <2>2. \A i \in Said(v, field) : (\A j \in Said(v, field) : j <= i) <=> i = n + 1
    BY <1>1, <2>1
  <2>3. (CHOOSE i \in Said(v, field) : \A j \in Said(v, field) : j <= i) = n + 1
    BY <2>1, <2>2
  <2> QED BY <1>2, <1>4, <2>1, <2>3 DEF LastWord, v
<1>5. CASE ~ Sets(x, field)
  <2>1. Said(v, field) = Said(w, field)
    BY <1>1, <1>2, <1>3, <1>5 DEF Said
  <2>2. CASE Said(w, field) = {}
    BY <1>5, <2>1, <2>2 DEF LastWord, v
  <2>3. CASE Said(w, field) # {}
    <3> DEFINE l == CHOOSE i \in Said(w, field) : \A j \in Said(w, field) : j <= i
    <3>1. Said(w, field) \in SUBSET (1 .. n)
      BY <1>1 DEF Said
    <3>2. \E i \in Said(w, field) : \A j \in Said(w, field) : j <= i
      BY <2>3, <3>1, LastExists
    <3>3. l \in 1 .. n
      BY <3>1, <3>2
    <3>4. v[l] = w[l]
      BY <1>2, <3>3
    <3>5. LastWord(w, field) = Value(w[l], field)
      BY <2>3 DEF LastWord
    <3>6. LastWord(v, field) = Value(v[l], field)
      BY <2>1, <2>3 DEF LastWord
    <3> QED BY <1>5, <3>4, <3>5, <3>6 DEF v
  <2> QED BY <2>2, <2>3
<1> QED BY <1>4, <1>5

\* A line of a file and an option change exactly the fields they set.
LEMMA LineSets ==
  ASSUME NEW c, c = [f \in Fields |-> c[f]], NEW l \in Lines
  PROVE  ApplyLine(c, l) = [f \in Fields |-> IF Sets(l, f) THEN Value(l, f) ELSE c[f]]
<1>1. ~ IsOption(l)
  BY DEF IsOption, Lines
<1>2. \A f : Sets(l, f) <=> SetByLine(l, f)
  BY <1>1 DEF Sets
<1>3. CASE l.section = "network" /\ l.key \in Flags
  <2>1. ApplyLine(c, l) = [c EXCEPT ![l.key] = ParseBool(l.val)]
    BY <1>3 DEF ApplyLine, Flags, Addresses
  <2>2. \A f \in Fields : SetByLine(l, f) <=> f = l.key
    BY <1>3, FieldNames DEF SetByLine, Flags, Addresses
  <2>3. Value(l, l.key) = ParseBool(l.val)
    BY <1>1, <1>3 DEF Value, Flags, Addresses
  <2>4. \A f \in Fields : ApplyLine(c, l)[f]
                            = IF Sets(l, f) THEN Value(l, f) ELSE c[f]
    BY <1>2, <2>1, <2>2, <2>3
  <2> QED BY <2>1, <2>4
<1>4. CASE l.section = "network" /\ l.key \in Addresses /\ l.val # ""
  <2>1. ApplyLine(c, l) = [c EXCEPT ![l.key] = l.val]
    BY <1>4 DEF ApplyLine, Flags, Addresses
  <2>2. \A f \in Fields : SetByLine(l, f) <=> f = l.key
    BY <1>4, FieldNames DEF SetByLine, Flags, Addresses
  <2>3. Value(l, l.key) = l.val
    BY <1>1, <1>4 DEF Value, Flags, Addresses
  <2>4. \A f \in Fields : ApplyLine(c, l)[f]
                            = IF Sets(l, f) THEN Value(l, f) ELSE c[f]
    BY <1>2, <2>1, <2>2, <2>3
  <2> QED BY <2>1, <2>4
<1>5. CASE l.section = "logging" /\ l.key = "level"
  <2>1. ApplyLine(c, l) = [c EXCEPT !.log_level = ParseLogLevel(l.val)]
    BY <1>5 DEF ApplyLine, Flags, Addresses
  <2>2. \A f \in Fields : SetByLine(l, f) <=> f = "log_level"
    BY <1>5, FieldNames DEF SetByLine, Flags, Addresses
  <2>3. Value(l, "log_level") = ParseLogLevel(l.val)
    BY <1>1 DEF Value, Flags, Addresses
  <2>4. \A f \in Fields : ApplyLine(c, l)[f]
                            = IF Sets(l, f) THEN Value(l, f) ELSE c[f]
    BY <1>2, <2>1, <2>2, <2>3
  <2> QED BY <2>1, <2>4
<1>6. CASE /\ ~ (l.section = "network" /\ l.key \in Flags)
           /\ ~ (l.section = "network" /\ l.key \in Addresses /\ l.val # "")
           /\ ~ (l.section = "logging" /\ l.key = "level")
  <2>1. ApplyLine(c, l) = c
    BY <1>6 DEF ApplyLine
  <2>2. \A f \in Fields : ~ SetByLine(l, f)
    BY <1>6 DEF SetByLine
  <2> QED BY <1>2, <2>1, <2>2
<1> QED BY <1>3, <1>4, <1>5, <1>6

LEMMA OptionSets ==
  ASSUME NEW c, c = [f \in Fields |-> c[f]], NEW o \in Options,
         o.opt \in {"n", "d", "s", "g", "m", "v", "p", "w"}
  PROVE  ApplyOption(c, o) = [f \in Fields |-> IF Sets(o, f) THEN Value(o, f) ELSE c[f]]
<1>1. IsOption(o)
  BY FileAssumption DEF IsOption
<1>2. \A f : Sets(o, f) <=> o.opt = Letter[f]
  BY <1>1 DEF Sets
<1>3. ASSUME NEW f \in Fields
      PROVE  ApplyOption(c, o)[f] = IF o.opt = Letter[f] THEN Value(o, f) ELSE c[f]
  <2>1. CASE o.opt = "n"
    <3>1. ApplyOption(c, o) = [c EXCEPT !.no_route = 1]
      BY <2>1 DEF ApplyOption
    <3> QED BY <1>1, <2>1, <3>1, FieldNames DEF Letter, Value, Flags, Addresses
  <2>2. CASE o.opt = "d"
    <3>1. ApplyOption(c, o) = [c EXCEPT !.no_dns = 1]
      BY <2>2 DEF ApplyOption
    <3> QED BY <1>1, <2>2, <3>1, FieldNames DEF Letter, Value, Flags, Addresses
  <2>3. CASE o.opt = "s"
    <3>1. ApplyOption(c, o) = [c EXCEPT !.static_ip = o.arg]
      BY <2>3 DEF ApplyOption
    <3> QED BY <1>1, <2>3, <3>1, FieldNames DEF Letter, Value, Flags, Addresses
  <2>4. CASE o.opt = "g"
    <3>1. ApplyOption(c, o) = [c EXCEPT !.gateway = o.arg]
      BY <2>4 DEF ApplyOption
    <3> QED BY <1>1, <2>4, <3>1, FieldNames DEF Letter, Value, Flags, Addresses
  <2>5. CASE o.opt = "m"
    <3>1. ApplyOption(c, o) = [c EXCEPT !.netmask = o.arg]
      BY <2>5 DEF ApplyOption
    <3> QED BY <1>1, <2>5, <3>1, FieldNames DEF Letter, Value, Flags, Addresses
  <2>6. CASE o.opt = "v"
    <3>1. ApplyOption(c, o) = [c EXCEPT !.verbose = 1, !.log_level = "debug"]
      BY <2>6 DEF ApplyOption
    <3>2. Letter[f] = "v" <=> f \in {"verbose", "log_level"}
      BY FieldNames DEF Letter
    <3>3. Value(o, "verbose") = 1 /\ Value(o, "log_level") = "debug"
      BY <1>1 DEF Value, Flags, Addresses
    <3>4. ApplyOption(c, o)[f] = IF f = "verbose" THEN 1
                                 ELSE IF f = "log_level" THEN "debug" ELSE c[f]
      BY <3>1, FieldNames
    <3> QED BY <2>6, <3>2, <3>3, <3>4
  <2>7. CASE o.opt = "p"
    <3>1. ApplyOption(c, o) = [c EXCEPT !.ui_pid = ToInt(o.arg)]
      BY <2>7 DEF ApplyOption
    <3> QED BY <1>1, <2>7, <3>1, FieldNames DEF Letter, Value, Flags, Addresses
  <2>8. CASE o.opt = "w"
    <3>1. ApplyOption(c, o) = [c EXCEPT !.watch_mode = 1]
      BY <2>8 DEF ApplyOption
    <3> QED BY <1>1, <2>8, <3>1, FieldNames DEF Letter, Value, Flags, Addresses
  <2> QED BY <2>1, <2>2, <2>3, <2>4, <2>5, <2>6, <2>7, <2>8
<1>4. ApplyOption(c, o) = [f \in Fields |-> ApplyOption(c, o)[f]]
  BY FieldNames DEF ApplyOption
<1> QED BY <1>2, <1>3, <1>4

\* So applying a word shows it.
LEMMA ShownLine ==
  ASSUME NEW w \in Seq(Words), NEW l \in Lines
  PROVE  ApplyLine(Shown(w), l) = Shown(Append(w, l))
<1>1. l \in Words
  BY DEF Words
<1>2. \A f \in Fields : LastWord(Append(w, l), f)
                           = IF Sets(l, f) THEN Value(l, f) ELSE LastWord(w, f)
  BY <1>1, LastWordOfAppend
<1>3. PICK c : c = Shown(w)
  OBVIOUS
<1>4. c = [f \in Fields |-> c[f]] /\ \A f \in Fields : c[f] = LastWord(w, f)
  BY <1>3 DEF Shown
<1>5. ApplyLine(c, l) = [f \in Fields |-> IF Sets(l, f) THEN Value(l, f) ELSE c[f]]
  BY <1>4, LineSets
<1> QED BY <1>2, <1>3, <1>4, <1>5 DEF Shown

LEMMA ShownOption ==
  ASSUME NEW w \in Seq(Words), NEW o \in Options,
         o.opt \in {"n", "d", "s", "g", "m", "v", "p", "w"}
  PROVE  ApplyOption(Shown(w), o) = Shown(Append(w, o))
<1>1. o \in Words
  BY DEF Words
<1>2. \A f \in Fields : LastWord(Append(w, o), f)
                           = IF Sets(o, f) THEN Value(o, f) ELSE LastWord(w, f)
  BY <1>1, LastWordOfAppend
<1>3. PICK c : c = Shown(w)
  OBVIOUS
<1>4. c = [f \in Fields |-> c[f]] /\ \A f \in Fields : c[f] = LastWord(w, f)
  BY <1>3 DEF Shown
<1>5. ApplyOption(c, o) = [f \in Fields |-> IF Sets(o, f) THEN Value(o, f) ELSE c[f]]
  BY <1>4, OptionSets
<1> QED BY <1>2, <1>3, <1>4, <1>5 DEF Shown

-----------------------------------------------------------------------------
(* A whole file *)

\* The equation that defines the configurations of LoadFile, line by line.
LoadEq(g, c, f) ==
  g = [i \in 0 .. Len(f) |-> IF i = 0 THEN c ELSE ApplyLine(g[i - 1], f[i])]

\* The words w followed by the first i lines of f.
FirstLines(w, f, i) == w \o SubSeq(f, 1, i)

LEMMA FirstLinesSteps ==
  ASSUME NEW w \in Seq(Words), NEW f \in Seq(Lines)
  PROVE  /\ FirstLines(w, f, 0) = w
         /\ FirstLines(w, f, Len(f)) = w \o f
         /\ \A i \in 0 .. Len(f) : FirstLines(w, f, i) \in Seq(Words)
         /\ \A i \in 1 .. Len(f) :
              FirstLines(w, f, i) = Append(FirstLines(w, f, i - 1), f[i])
<1>0. f \in Seq(Words) /\ Len(f) \in Nat /\ Len(w) \in Nat
  BY DEF Words
<1>1. FirstLines(w, f, 0) = w
  BY <1>0 DEF FirstLines
<1>2. FirstLines(w, f, Len(f)) = w \o f
  BY <1>0 DEF FirstLines
<1>3. \A i \in 0 .. Len(f) : FirstLines(w, f, i) \in Seq(Words)
  BY <1>0 DEF FirstLines
<1>4. ASSUME NEW i \in 1 .. Len(f)
      PROVE  FirstLines(w, f, i) = Append(FirstLines(w, f, i - 1), f[i])
  BY <1>0 DEF FirstLines
<1> QED BY <1>1, <1>2, <1>3, <1>4

\* Loading a file adds its lines to the words.
LEMMA ShownFile ==
  ASSUME NEW w \in Seq(Words), NEW f \in Files
  PROVE  LoadFile(Shown(w), f) = Shown(w \o f)
<1>0. f # NoFile /\ f \in Seq(Lines)
  BY FileAssumption DEF Lines
<1>1. PICK n \in Nat : n = Len(f)
  BY <1>0
<1>2. PICK e : e = [i \in 0 .. n |-> Shown(FirstLines(w, f, i))]
  OBVIOUS
<1>3. \A i \in 0 .. n : i # 0 => i \in 1 .. n /\ i - 1 \in 0 .. n
  OBVIOUS
<1>4. ASSUME NEW i \in 1 .. n PROVE e[i] = ApplyLine(e[i - 1], f[i])
  <2>1. FirstLines(w, f, i) = Append(FirstLines(w, f, i - 1), f[i])
        /\ FirstLines(w, f, i - 1) \in Seq(Words) /\ f[i] \in Lines
    <3>1. i \in 1 .. Len(f) /\ i - 1 \in 0 .. Len(f)
      BY <1>1
    <3>2. f[i] \in Lines
      BY <1>0, <3>1
    <3> QED BY <1>0, <3>1, <3>2, FirstLinesSteps
  <2>2. ApplyLine(Shown(FirstLines(w, f, i - 1)), f[i]) = Shown(FirstLines(w, f, i))
    <3>1. PICK u, l : u = FirstLines(w, f, i - 1) /\ l = f[i]
      OBVIOUS
    <3>2. ApplyLine(Shown(u), l) = Shown(Append(u, l))
      BY <2>1, <3>1, ShownLine
    <3> QED BY <2>1, <3>1, <3>2
  <2>3. i \in 0 .. n /\ i - 1 \in 0 .. n
    OBVIOUS
  <2> QED BY <1>2, <2>2, <2>3
<1>5. e[0] = Shown(w) /\ e[n] = Shown(w \o f)
  BY <1>0, <1>1, <1>2, FirstLinesSteps
<1>6. LoadEq(e, Shown(w), f)
  BY <1>1, <1>2, <1>3, <1>4, <1>5 DEF LoadEq
<1> DEFINE g == CHOOSE d : LoadEq(d, Shown(w), f)
<1>7. LoadEq(g, Shown(w), f)
  BY <1>6
<1>8. LoadFile(Shown(w), f) = g[Len(f)]
  BY <1>0 DEF LoadFile, LoadEq
<1> HIDE DEF g
<1>9. g[0] = Shown(w) /\ \A i \in 1 .. n : g[i] = ApplyLine(g[i - 1], f[i])
  <2>1. \A i \in 0 .. n : g[i] = IF i = 0 THEN Shown(w) ELSE ApplyLine(g[i - 1], f[i])
    BY <1>1, <1>7 DEF LoadEq
  <2>2. 0 \in 0 .. n /\ \A i \in 1 .. n : i \in 0 .. n /\ i # 0
    OBVIOUS
  <2> QED BY <2>1, <2>2
<1>10. g[0] = e[0] /\ \A i \in 1 .. n : g[i - 1] = e[i - 1] => g[i] = e[i]
  BY <1>4, <1>5, <1>9
<1>11. g[n] = e[n]
  <2>1. n \in 0 .. n
    OBVIOUS
  <2> QED BY <1>10, <2>1, RecursionUnique
<1> QED BY <1>1, <1>5, <1>8, <1>11

-----------------------------------------------------------------------------
(* The command line *)

\* The equation that defines Settings, option by option.
CatEq(g, f, a, n) ==
  g = [i \in 0 .. n |-> IF i = 0 THEN LinesOf(f) ELSE g[i - 1] \o WordsOf(a[i])]

LEMMA WordTypes ==
  /\ \A f \in Files \cup {NoFile} : LinesOf(f) \in Seq(Words)
  /\ \A o \in Options : WordsOf(o) \in Seq(Words)
<1>1. ASSUME NEW f \in Files \cup {NoFile} PROVE LinesOf(f) \in Seq(Words)
  <2>1. f \in Files => f \in Seq(Lines)
    BY FileAssumption DEF Lines
  <2>2. f \in Files => f \in Seq(Words)
    BY <2>1 DEF Words
  <2> QED BY <2>2 DEF LinesOf
<1>2. ASSUME NEW o \in Options PROVE WordsOf(o) \in Seq(Words)
  <2>1. CASE o.opt = "c"
    BY <1>1, <2>1, FileAssumption DEF WordsOf
  <2>2. CASE o.opt # "c"
    <3>1. o \in Words
      BY <2>2 DEF Words
    <3>2. <<o>> \in Seq(Words)
      BY <3>1
    <3> QED BY <2>2, <3>2 DEF WordsOf
  <2> QED BY <2>1, <2>2
<1> QED BY <1>1, <1>2

LEMMA CatExists ==
  ASSUME NEW f \in Files \cup {NoFile}, NEW a \in Seq(Options)
  PROVE  \E g : CatEq(g, f, a, Len(a)) /\ g \in [0 .. Len(a) -> Seq(Words)]
<1>1. PICK n \in Nat : n = Len(a)
  OBVIOUS
<1>2. PICK S, x : S = Seq(Words) /\ x = LinesOf(f)
  OBVIOUS
<1>3. x \in S
  BY <1>2, WordTypes
<1>4. PICK step : step = [i \in 1 .. n |-> [s \in S |-> s \o WordsOf(a[i])]]
  OBVIOUS
<1>5. \A i \in 1 .. n : \A s \in S : s \o WordsOf(a[i]) \in S
  <2> SUFFICES ASSUME NEW i \in 1 .. n, NEW s \in S PROVE s \o WordsOf(a[i]) \in S
    OBVIOUS
  <2>1. a[i] \in Options
    BY <1>1
  <2>2. WordsOf(a[i]) \in Seq(Words)
    BY <2>1, WordTypes
  <2> QED BY <1>2, <2>2
<1>6. step \in [1 .. n -> [S -> S]]
  BY <1>4, <1>5
<1>7. PICK e \in [0 .. n -> S] : e[0] = x /\ \A i \in 1 .. n : e[i] = step[i][e[i - 1]]
  BY <1>3, <1>6, RecursionExists
<1>8. \A i \in 1 .. n : i - 1 \in 0 .. n
  OBVIOUS
<1>9. \A i \in 1 .. n : e[i] = e[i - 1] \o WordsOf(a[i])
  BY <1>4, <1>7, <1>8
<1>10. \A i \in 0 .. n : i = 0 \/ i \in 1 .. n
  OBVIOUS
<1>11. CatEq(e, f, a, n)
  BY <1>2, <1>7, <1>9, <1>10 DEF CatEq
<1> QED BY <1>1, <1>2, <1>7, <1>11

\* What is said up to an option depends on the options up to it only.
LEMMA CatPrefix ==
  ASSUME NEW f, NEW a, NEW b, NEW n \in Nat, NEW m \in Nat, n <= m,
         \A i \in 1 .. n : b[i] = a[i],
         NEW g, CatEq(g, f, a, n), NEW h, CatEq(h, f, b, m)
  PROVE  h[n] = g[n]
<1>1. \A i \in 0 .. n : g[i] = IF i = 0 THEN LinesOf(f) ELSE g[i - 1] \o WordsOf(a[i])
  BY DEF CatEq
<1>2. \A i \in 0 .. m : h[i] = IF i = 0 THEN LinesOf(f) ELSE h[i - 1] \o WordsOf(b[i])
  BY DEF CatEq
<1>3. /\ 0 \in 0 .. n /\ 0 \in 0 .. m
      /\ \A i \in 1 .. n : i \in 0 .. n /\ i \in 0 .. m /\ i # 0
  OBVIOUS
<1>4. h[0] = g[0] /\ \A i \in 1 .. n : h[i - 1] = g[i - 1] => h[i] = g[i]
  BY <1>1, <1>2, <1>3
<1>5. n \in 0 .. n
  OBVIOUS
<1> QED BY <1>4, <1>5, RecursionUnique

\* Any solution of the equation yields Settings.
LEMMA CatUnique ==
  ASSUME NEW f, NEW a \in Seq(Options), NEW g, CatEq(g, f, a, Len(a))
  PROVE  Settings(f, a) = g[Len(a)]
<1>1. PICK n \in Nat : n = Len(a)
  OBVIOUS
<1> DEFINE h == CHOOSE d : CatEq(d, f, a, Len(a))
<1>2. CatEq(h, f, a, Len(a))
  OBVIOUS
<1>3. Settings(f, a) = h[Len(a)]
  BY DEF Settings, CatEq
<1> HIDE DEF h
<1>4. n <= n
  OBVIOUS
<1>5. h[n] = g[n]
  BY <1>1, <1>2, <1>4, CatPrefix
<1> QED BY <1>1, <1>3, <1>5

LEMMA SettingsType ==
  ASSUME NEW f \in Files \cup {NoFile}, NEW a \in Seq(Options)
  PROVE  Settings(f, a) \in Seq(Words)
<1>1. PICK g : CatEq(g, f, a, Len(a)) /\ g \in [0 .. Len(a) -> Seq(Words)]
  BY CatExists
<1>2. Len(a) \in 0 .. Len(a)
  OBVIOUS
<1> QED BY <1>1, <1>2, CatUnique

\* With no option there is the default file; an option adds its words.
LEMMA SettingsOfNone ==
  ASSUME NEW f \in Files \cup {NoFile}
  PROVE  Settings(f, <<>>) = LinesOf(f)
<1>1. <<>> \in Seq(Options) /\ Len(<<>>) = 0
  OBVIOUS
<1>2. PICK g : CatEq(g, f, <<>>, Len(<<>>))
  BY <1>1, CatExists
<1>3. g[0] = LinesOf(f)
  BY <1>1, <1>2 DEF CatEq
<1> QED BY <1>1, <1>2, <1>3, CatUnique

LEMMA SettingsOfAppend ==
  ASSUME NEW f \in Files \cup {NoFile}, NEW a \in Seq(Options), NEW o \in Options
  PROVE  Settings(f, Append(a, o)) = Settings(f, a) \o WordsOf(o)
<1>1. PICK n \in Nat : n = Len(a)
  OBVIOUS
<1>2. PICK b : b = Append(a, o)
  OBVIOUS
<1>3. b \in Seq(Options) /\ Len(b) = n + 1 /\ b[n + 1] = o /\ \A i \in 1 .. n : b[i] = a[i]
  BY <1>1, <1>2
<1>4. PICK g : CatEq(g, f, a, n)
  BY <1>1, CatExists
<1>5. PICK h : CatEq(h, f, b, n + 1)
  BY <1>3, CatExists
<1>6. n + 1 \in Nat /\ n <= n + 1 /\ n + 1 \in 0 .. n + 1 /\ n + 1 # 0 /\ (n + 1) - 1 = n
  OBVIOUS
<1>7. h[n] = g[n]
  BY <1>3, <1>4, <1>5, <1>6, CatPrefix
<1>8. h[n + 1] = h[n] \o WordsOf(o)
  <2>1. h[n + 1] = h[(n + 1) - 1] \o WordsOf(b[n + 1])
    BY <1>5, <1>6 DEF CatEq
  <2> QED BY <1>3, <1>6, <2>1
<1>9. Settings(f, a) = g[n] /\ Settings(f, b) = h[n + 1]
  BY <1>1, <1>3, <1>4, <1>5, CatUnique
<1> QED BY <1>2, <1>7, <1>8, <1>9

-----------------------------------------------------------------------------
(* The inductive invariant *)

\* Before the default file nothing is said; from then on the configuration
\* shows what is said, until the process gives up.
ConfigInv ==
  /\ ppc \in {"defaults", "cli", "start", "exit"}
  /\ file \in Files \cup {NoFile} /\ args \in Seq(Options)
  /\ ppc = "defaults" => args = <<>> /\ cfg = Defaults
  /\ ppc \in {"cli", "start"} => cfg = Shown(Settings(file, args))

\* With nothing said the fields have their defaults.
LEMMA ShownNothing == Shown(<<>>) = Defaults
<1>1. \A field : Said(<<>>, field) = {}
  BY DEF Said
<1>2. \A field : LastWord(<<>>, field) = Defaults[field]
  BY <1>1 DEF LastWord
<1>3. Defaults = [field \in Fields |-> Defaults[field]]
  BY DEF Defaults, Fields
<1> QED BY <1>2, <1>3 DEF Shown

LEMMA LoadDefaultShows ==
  ASSUME ConfigInv, LoadDefault
  PROVE  cfg' = Shown(Settings(file, args))
<1>1. cfg' = LoadFile(Shown(<<>>), file) /\ args = <<>> /\ file \in Files \cup {NoFile}
  BY ShownNothing DEF ConfigInv, LoadDefault
<1>2. Settings(file, args) = LinesOf(file)
  BY <1>1, SettingsOfNone
<1>3. CASE file = NoFile
  BY <1>1, <1>2, <1>3 DEF LoadFile, LinesOf
<1>4. CASE file # NoFile
  <2>1. <<>> \in Seq(Words)
    OBVIOUS
  <2>2. file \in Files /\ LinesOf(file) = file
    BY <1>1, <1>4 DEF LinesOf
  <2>3. file \in Seq(Words)
    BY <1>1, <2>2, WordTypes
  <2>4. <<>> \o file = file
    BY <2>3
  <2>5. LoadFile(Shown(<<>>), file) = Shown(<<>> \o file)
    BY <2>1, <2>2, ShownFile
  <2> QED BY <1>1, <1>2, <2>2, <2>4, <2>5
<1> QED BY <1>3, <1>4

\* An option that is accepted adds its words.
LEMMA OptionShows ==
  ASSUME NEW f \in Files \cup {NoFile}, NEW a \in Seq(Options), NEW o \in Options,
         ~ Fails(o), o.opt \notin {"h", "V"}
  PROVE  ApplyOption(Shown(Settings(f, a)), o) = Shown(Settings(f, Append(a, o)))
<1>1. PICK w : w = Settings(f, a)
  OBVIOUS
<1>2. w \in Seq(Words) /\ Settings(f, Append(a, o)) = w \o WordsOf(o)
  BY <1>1, SettingsType, SettingsOfAppend
<1>3. o.opt \in {"n", "d", "s", "g", "m", "v", "p", "w", "c"}
  BY DEF Fails, Known
<1>4. CASE o.opt = "c"
  <2>1. o.arg \in Files /\ o.arg # NoFile
    BY <1>4, FileAssumption DEF Fails
  <2>2. ApplyOption(Shown(w), o) = LoadFile(Shown(w), o.arg)
    BY <1>4 DEF ApplyOption
  <2>3. WordsOf(o) = o.arg
    BY <1>4, <2>1 DEF WordsOf, LinesOf
  <2>4. LoadFile(Shown(w), o.arg) = Shown(w \o o.arg)
    BY <1>2, <2>1, ShownFile
  <2> QED BY <1>1, <1>2, <2>2, <2>3, <2>4
<1>5. CASE o.opt # "c"
  <2>1. o \in Words
    BY <1>5 DEF Words
  <2>2. WordsOf(o) = <<o>>
    BY <1>5 DEF WordsOf
  <2>3. w \o <<o>> = Append(w, o)
    BY <1>2, <2>1
  <2>4. ApplyOption(Shown(w), o) = Shown(Append(w, o))
    BY <1>2, <1>3, <1>5, ShownOption
  <2> QED BY <1>1, <1>2, <2>2, <2>3, <2>4
<1> QED BY <1>4, <1>5

LEMMA ConfigStep == ConfigInv /\ [Next]_vars => ConfigInv'
<1> SUFFICES ASSUME ConfigInv, [Next]_vars PROVE ConfigInv'
  OBVIOUS
<1>1. CASE LoadDefault
  BY <1>1, LoadDefaultShows DEF ConfigInv, LoadDefault
<1>2. CASE ReadOption
  <2>1. PICK o \in Options :
          /\ args' = Append(args, o)
          /\ IF Fails(o) \/ o.opt \in {"h", "V"}
             THEN ppc' = "exit"
             ELSE cfg' = ApplyOption(cfg, o) /\ ppc' = ppc
    BY <1>2 DEF ReadOption
  <2>2. ppc = "cli" /\ file' = file /\ args' \in Seq(Options)
    BY <1>2, <2>1 DEF ReadOption, ConfigInv
  <2>3. CASE Fails(o) \/ o.opt \in {"h", "V"}
    BY <2>1, <2>2, <2>3 DEF ConfigInv
  <2>4. CASE ~ (Fails(o) \/ o.opt \in {"h", "V"})
    <3>1. ApplyOption(Shown(Settings(file, args)), o) = Shown(Settings(file, args'))
      BY <2>1, <2>4, OptionShows DEF ConfigInv
    <3>2. cfg' = Shown(Settings(file', args')) /\ ppc' = "cli"
      BY <2>1, <2>2, <2>4, <3>1 DEF ConfigInv
    <3> QED BY <2>2, <3>2 DEF ConfigInv
  <2> QED BY <2>3, <2>4
<1>3. CASE EndOptions
  BY <1>3 DEF ConfigInv, EndOptions
<1>4. CASE UNCHANGED vars
  BY <1>4 DEF ConfigInv, vars
<1> QED BY <1>1, <1>2, <1>3, <1>4 DEF Next, Finished

\* Whatever the files and the options, the daemon starts with the last word on
\* each field (config_load_default, config_apply_cli and the -c of its loop).
THEOREM LastWordAlwaysWins == Spec => []LastWordWins
<1>1. Init => ConfigInv
  BY DEF Init, ConfigInv
<1>2. ConfigInv => LastWordWins
  BY DEF ConfigInv, LastWordWins, Shown, Fields
<1> QED BY <1>1, <1>2, ConfigStep, PTL DEF Spec
=============================================================================

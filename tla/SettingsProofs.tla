--------------------------- MODULE SettingsProofs ---------------------------
(***************************************************************************)
(* What Settings promises, proved for every set of inputs.                 *)
(***************************************************************************)
EXTENDS Settings, TLAPS

-----------------------------------------------------------------------------
(* The configuration as a function.                                        *)

LEMMA OverlayOf ==
  ASSUME NEW new, NEW c
  PROVE  /\ DOMAIN Overlay(new, c) = DOMAIN new \cup DOMAIN c
         /\ \A o \in DOMAIN new : Overlay(new, c)[o] = new[o]
         /\ \A o \in DOMAIN c \ DOMAIN new : Overlay(new, c)[o] = c[o]
BY DEF Overlay

LEMMA OverlayWithin ==
  ASSUME NEW new, NEW c, NEW S, DOMAIN new \subseteq S, DOMAIN c \subseteq S
  PROVE  DOMAIN Overlay(new, c) \subseteq S
BY DEF Overlay

LEMMA OnlyOf ==
  ASSUME NEW o, NEW v
  PROVE  DOMAIN Only(o, v) = {o} /\ Only(o, v)[o] = v
BY DEF Only

LEMMA SaysOptions ==
  ASSUME NEW l
  PROVE  DOMAIN FileSays(l) \subseteq Options /\ DOMAIN SwitchSays(l) \subseteq Options
<1>1. \A W : DOMAIN Says(l, W) \subseteq Options
  BY DEF Says
<1>2. "RedirectDrives" \in Options
  BY DEF Options, Pointers
<1>3. DOMAIN FileSays(l) \subseteq Options
  BY <1>1, <1>2, OverlayOf DEF FileSays
<1>4. DOMAIN SwitchSays(l) \subseteq Options
  BY <1>1 DEF SwitchSays, Nothing
<1> QED
  BY <1>3, <1>4

\* The arguments that say nothing about an option.
LEMMA SilentKeys ==
  ASSUME NEW l, l.key \in {".rdp", "set", "help", "version"} \/ FromConsole(l)
  PROVE  DOMAIN SwitchSays(l) = {}
<1>1. CASE FromConsole(l)
  BY <1>1 DEF SwitchSays, Nothing
<1>2. CASE ~FromConsole(l)
  <2>1. \A key \in {".rdp", "set", "help", "version"} : \A o :
          <<key, o>> \notin Words(SwitchWords) /\ <<key, o>> \notin SwitchWords.split
    BY DEF Words, SwitchWords
  <2>2. DOMAIN Says(l, SwitchWords) = {}
    BY <2>1, <1>2 DEF Says
  <2> QED
    BY <1>2, <2>2 DEF SwitchSays
<1> QED
  BY <1>1, <1>2

\* No switch gives the gateway's method or the mark of the console, and none turns
\* full screen off.
LEMMA SwitchWordsOf ==
  ASSUME NEW l
  PROVE  /\ "Gateway.UsageMethod" \notin DOMAIN SwitchSays(l)
         /\ "ReadPwStdin" \notin DOMAIN SwitchSays(l)
         /\ "FullScreen" \in DOMAIN SwitchSays(l) => SwitchSays(l)["FullScreen"] = "1"
<1>1. \A key : <<key, "Gateway.UsageMethod">> \notin Words(SwitchWords)
               /\ <<key, "Gateway.UsageMethod">> \notin SwitchWords.split
  BY DEF Words, SwitchWords
<1>2. \A key : /\ <<key, "FullScreen">> \notin SwitchWords.value
               /\ <<key, "FullScreen">> \notin SwitchWords.flag
               /\ <<key, "FullScreen">> \notin SwitchWords.split
               /\ <<key, "FullScreen">> \notin SwitchWords.off
  BY DEF SwitchWords
<1>3. "Gateway.UsageMethod" \notin DOMAIN SwitchSays(l)
  BY <1>1 DEF SwitchSays, Says, Nothing
<1>5. "ReadPwStdin" \notin DOMAIN SwitchSays(l)
  <2>1. \A key : <<key, "ReadPwStdin">> \notin Words(SwitchWords)
                 /\ <<key, "ReadPwStdin">> \notin SwitchWords.split
    BY DEF Words, SwitchWords
  <2> QED
    BY <2>1 DEF SwitchSays, Says, Nothing
<1>4. ASSUME "FullScreen" \in DOMAIN SwitchSays(l)
      PROVE  SwitchSays(l)["FullScreen"] = "1"
  <2>1. ~FromConsole(l)
    BY <1>4 DEF SwitchSays, Nothing
  <2>2. /\ SwitchSays(l) = Says(l, SwitchWords)
        /\ "FullScreen" \in DOMAIN Says(l, SwitchWords)
    BY <2>1, <1>4 DEF SwitchSays
  <2>3. <<l.key, "FullScreen">> \in SwitchWords.on
    BY <2>2, <1>2 DEF Says, Words
  <2>4. Says(l, SwitchWords)["FullScreen"] = "1"
    BY <2>2, <2>3, <1>2 DEF Says
  <2> QED
    BY <2>2, <2>4
<1> QED
  BY <1>3, <1>4, <1>5

-----------------------------------------------------------------------------
(* Type correctness.                                                       *)

TypeInv == in \in Inputs /\ TypeOK

LEMMA AtCounts ==
  ASSUME at \in Nat \ {0}
  PROVE  at + 1 \in Nat \ {0} /\ 1 \in Nat \ {0}
OBVIOUS

LEMMA InputTypes ==
  ASSUME in \in Inputs
  PROVE  /\ in.args \in Seq(Lines) /\ in.file \in Seq(Lines)
         /\ \A k \in DOMAIN in.file :
              in.file[k].key = "performanceflags" /\ in.file[k].ok
                => BitsOf[in.file[k].val] \subseteq Bits
BY InputsAssumption

LEMMA ConfigTypes == TypeInv => DOMAIN cfg \subseteq Options
BY DEF TypeInv, TypeOK

LEMMA OnlyWithin ==
  ASSUME NEW o, NEW v, o \in Options
  PROVE  DOMAIN Only(o, v) \subseteq Options
BY DEF Only

\* What the steps of one part of the program leave alone.
KeepsApplied == holds' = holds /\ warned' = warned /\ refused' = refused

LEMMA TypeInit == Init => TypeInv
<1> SUFFICES ASSUME Init PROVE TypeInv
  OBVIOUS
<1>1. DOMAIN NewConfig = {"DynamicResize"} /\ DOMAIN Nothing = {}
  BY DEF NewConfig, Nothing
<1>2. "DynamicResize" \in Options
  BY DEF Options, Booleans
<1>3. in \in Inputs /\ pc \in Steps /\ at \in Nat \ {0} /\ DOMAIN cfg \subseteq Options
  <2>1. in \in Inputs /\ pc = "start" /\ at = 1 /\ cfg = NewConfig
    BY DEF Init
  <2> QED
    BY <2>1, <1>1, <1>2 DEF Steps
<1>4. overrides \in Seq(STRING)
  <2>1. overrides = <<>>
    BY DEF Init
  <2> QED
    BY <2>1
<1>5. /\ perf \subseteq Bits /\ perfSeen \in BOOLEAN /\ early \subseteq {"help", "version"}
      /\ DOMAIN holds = {} /\ warned \subseteq DOMAIN Order /\ refused \subseteq DOMAIN overrides
  BY <1>1 DEF Init
<1> QED
  BY <1>3, <1>4, <1>5 DEF TypeInv, TypeOK

\* A step that writes nothing to the control keeps the types if it keeps these.
LEMMA TypeByReading ==
  ASSUME TypeInv,
         in' = in, KeepsApplied, pc' \in Steps, at' \in Nat \ {0},
         DOMAIN cfg' \subseteq Options, overrides' = overrides,
         perf' \subseteq Bits, perfSeen' \in BOOLEAN,
         early' \subseteq {"help", "version"}
  PROVE  TypeInv'
BY DEF TypeInv, TypeOK, KeepsApplied

LEMMA TypeFindFile == TypeInv /\ FindFile => TypeInv'
<1> SUFFICES ASSUME TypeInv, FindFile PROVE TypeInv'
  OBVIOUS
<1>1. pc' \in Steps
  BY DEF FindFile, Steps
<1> QED
  BY <1>1, TypeByReading DEF TypeInv, TypeOK, FindFile, KeepsApplied, reading, applied

LEMMA TypeReadLine ==
  ASSUME TypeInv, ReadLine
  PROVE  /\ in' = in /\ KeepsApplied /\ pc' \in Steps /\ at' \in Nat \ {0}
         /\ overrides' = overrides /\ early' \subseteq {"help", "version"}
         /\ at \in DOMAIN in.file
<1>1. at \in DOMAIN in.file
  BY InputTypes DEF TypeInv, TypeOK, ReadLine
<1> QED
  BY <1>1, AtCounts DEF TypeInv, TypeOK, ReadLine, KeepsApplied, applied

LEMMA TypeReadSetting == TypeInv /\ ReadSetting => TypeInv'
<1> SUFFICES ASSUME TypeInv, ReadSetting PROVE TypeInv'
  OBVIOUS
<1>1. DOMAIN cfg' \subseteq Options
  <2>1. cfg' = Overlay(FileSays(line), cfg)
    BY DEF ReadSetting
  <2> QED
    BY <2>1, ConfigTypes, SaysOptions, OverlayWithin
<1>2. perf' \subseteq Bits /\ perfSeen' \in BOOLEAN
  BY DEF ReadSetting, TypeInv, TypeOK, reading
<1> QED
  BY <1>1, <1>2, TypeReadLine, TypeByReading DEF ReadSetting

LEMMA TypeReadPrompt == TypeInv /\ ReadPrompt => TypeInv'
<1> SUFFICES ASSUME TypeInv, ReadPrompt PROVE TypeInv'
  OBVIOUS
<1>1. "PromptForCreds" \in Options
  BY DEF Options, Booleans
<1>2. DOMAIN cfg' \subseteq Options
  <2>1. cfg' = Overlay(Only("PromptForCreds", "1"), cfg)
    BY DEF ReadPrompt
  <2> QED
    BY <2>1, <1>1, ConfigTypes, OnlyWithin, OverlayWithin
<1>3. perf' \subseteq Bits /\ perfSeen' \in BOOLEAN
  BY DEF ReadPrompt, TypeInv, TypeOK, reading
<1> QED
  BY <1>2, <1>3, TypeReadLine, TypeByReading DEF ReadPrompt

LEMMA TypeReadScreenMode == TypeInv /\ ReadScreenMode => TypeInv'
<1> SUFFICES ASSUME TypeInv, ReadScreenMode PROVE TypeInv'
  OBVIOUS
<1>1. DOMAIN cfg' \subseteq Options /\ perf' \subseteq Bits /\ perfSeen' \in BOOLEAN
  BY DEF ReadScreenMode, TypeInv, TypeOK
<1> QED
  BY <1>1, TypeReadLine, TypeByReading DEF ReadScreenMode

LEMMA TypeReadPerformance == TypeInv /\ ReadPerformance => TypeInv'
<1> SUFFICES ASSUME TypeInv, ReadPerformance PROVE TypeInv'
  OBVIOUS
<1>1. at \in DOMAIN in.file
  BY TypeReadLine DEF ReadPerformance
<1>2. perf' \subseteq Bits
  <2>1. CASE line.key = "performanceflags" /\ perf' = Number(line.val)
    BY <2>1, <1>1, InputTypes DEF ReadPerformance, Number, line, TypeInv
  <2>2. CASE \E b \in Bits :
               perf' = IF Flag(line.val) = "1" THEN perf \cup {b} ELSE perf \ {b}
    BY <2>2 DEF TypeInv, TypeOK
  <2> QED
    BY <2>1, <2>2 DEF ReadPerformance
<1>3. DOMAIN cfg' \subseteq Options /\ perfSeen' \in BOOLEAN
  BY DEF ReadPerformance, TypeInv, TypeOK
<1> QED
  BY <1>2, <1>3, TypeReadLine, TypeByReading DEF ReadPerformance

LEMMA TypeSkipLine == TypeInv /\ SkipLine => TypeInv'
<1> SUFFICES ASSUME TypeInv, SkipLine PROVE TypeInv'
  OBVIOUS
<1>1. DOMAIN cfg' \subseteq Options /\ perf' \subseteq Bits /\ perfSeen' \in BOOLEAN
  BY DEF SkipLine, TypeInv, TypeOK, reading
<1> QED
  BY <1>1, TypeReadLine, TypeByReading DEF SkipLine

LEMMA TypeEndFile == TypeInv /\ EndFile => TypeInv'
<1> SUFFICES ASSUME TypeInv, EndFile PROVE TypeInv'
  OBVIOUS
<1>1. {"FullScreen", "PerformanceFlags"} \subseteq Options
  BY DEF Options, Booleans, Pointers
<1>2. DOMAIN cfg' \subseteq Options
  <2>1. DOMAIN Deferred \subseteq {"FullScreen", "PerformanceFlags"}
    BY DEF Deferred
  <2> QED
    BY <1>1, <2>1, ConfigTypes, OverlayWithin DEF EndFile
<1>3. pc' \in Steps /\ at' \in Nat \ {0}
  BY DEF EndFile, Steps
<1> QED
  BY <1>2, <1>3, TypeByReading DEF EndFile, TypeInv, TypeOK, KeepsApplied, reading, applied

LEMMA TypeReadSwitch ==
  ASSUME TypeInv, ReadSwitch
  PROVE  /\ in' = in /\ KeepsApplied /\ at' \in Nat \ {0}
         /\ perf' \subseteq Bits /\ perfSeen' \in BOOLEAN
         /\ at \in DOMAIN in.args
<1>1. at \in DOMAIN in.args
  BY InputTypes DEF TypeInv, TypeOK, ReadSwitch
<1> QED
  BY <1>1, AtCounts DEF TypeInv, TypeOK, ReadSwitch, KeepsApplied, applied, reading

LEMMA TypeSkipFile == TypeInv /\ SkipFile => TypeInv'
<1> SUFFICES ASSUME TypeInv, SkipFile PROVE TypeInv'
  OBVIOUS
<1> QED
  BY TypeReadSwitch, TypeByReading DEF SkipFile, TypeInv, TypeOK

LEMMA TypeSwitchSetting == TypeInv /\ SwitchSetting => TypeInv'
<1> SUFFICES ASSUME TypeInv, SwitchSetting PROVE TypeInv'
  OBVIOUS
<1>1. DOMAIN cfg' \subseteq Options
  <2>1. cfg' = Overlay(SwitchSays(switch), cfg)
    BY DEF SwitchSetting
  <2> QED
    BY <2>1, ConfigTypes, SaysOptions, OverlayWithin
<1> QED
  BY <1>1, TypeReadSwitch, TypeByReading DEF SwitchSetting, TypeInv, TypeOK

LEMMA TypeSwitchConsole == TypeInv /\ SwitchConsole => TypeInv'
<1> SUFFICES ASSUME TypeInv, SwitchConsole PROVE TypeInv'
  OBVIOUS
<1>1. "ReadPwStdin" \in Options
  BY DEF Options, Booleans
<1>2. DOMAIN cfg' \subseteq Options
  <2>1. cfg' = Overlay(Only("ReadPwStdin", "1"), cfg)
    BY DEF SwitchConsole
  <2> QED
    BY <2>1, <1>1, ConfigTypes, OnlyWithin, OverlayWithin
<1> QED
  BY <1>2, TypeReadSwitch, TypeByReading DEF SwitchConsole, TypeInv, TypeOK

LEMMA TypeSwitchGatewayConsole == TypeInv /\ SwitchGatewayConsole => TypeInv'
<1> SUFFICES ASSUME TypeInv, SwitchGatewayConsole PROVE TypeInv'
  OBVIOUS
<1>1. "Gateway.Password" \in Options
  BY DEF Options, Pointers
<1>2. DOMAIN cfg' \subseteq Options
  <2>1. PICK secret : cfg' = Overlay(Only("Gateway.Password", secret), cfg)
    BY DEF SwitchGatewayConsole
  <2> QED
    BY <2>1, <1>1, ConfigTypes, OnlyWithin, OverlayWithin
<1> QED
  BY <1>2, TypeReadSwitch, TypeByReading DEF SwitchGatewayConsole, TypeInv, TypeOK

LEMMA TypeSwitchOverride == TypeInv /\ SwitchOverride => TypeInv'
<1> SUFFICES ASSUME TypeInv, SwitchOverride PROVE TypeInv'
  OBVIOUS
<1>1. switch.split \in STRING
  <2>1. at \in DOMAIN in.args /\ in.args \in Seq(Lines)
    BY TypeReadSwitch, InputTypes DEF SwitchOverride, TypeInv
  <2>2. switch \in Lines
    BY <2>1 DEF switch
  <2> QED
    BY <2>2 DEF Lines
<1>2. overrides' \in Seq(STRING) /\ DOMAIN overrides \subseteq DOMAIN overrides'
  BY <1>1 DEF SwitchOverride, TypeInv, TypeOK
<1>3. /\ in' \in Inputs /\ pc' \in Steps /\ at' \in Nat \ {0} /\ DOMAIN cfg' \subseteq Options
      /\ perf' \subseteq Bits /\ perfSeen' \in BOOLEAN /\ early' \subseteq {"help", "version"}
      /\ holds' = holds /\ warned' = warned /\ refused' = refused
  BY TypeReadSwitch DEF SwitchOverride, TypeInv, TypeOK, KeepsApplied
<1>4. \A p \in DOMAIN holds' :
        holds'[p] \in [by : {"setting"}, n : DOMAIN Order]
                       \cup [by : {"override"}, n : DOMAIN overrides']
  BY <1>2, <1>3 DEF TypeInv, TypeOK
<1>5. warned' \subseteq DOMAIN Order /\ refused' \subseteq DOMAIN overrides'
  BY <1>2, <1>3 DEF TypeInv, TypeOK
<1> QED
  BY <1>2, <1>3, <1>4, <1>5 DEF TypeInv, TypeOK

LEMMA TypeSwitchEarly == TypeInv /\ SwitchEarly => TypeInv'
<1> SUFFICES ASSUME TypeInv, SwitchEarly PROVE TypeInv'
  OBVIOUS
<1>1. early' \subseteq {"help", "version"}
  BY DEF SwitchEarly, TypeInv, TypeOK
<1> QED
  BY <1>1, TypeReadSwitch, TypeByReading DEF SwitchEarly, TypeInv, TypeOK

LEMMA TypeSwitchRejected == TypeInv /\ SwitchRejected => TypeInv'
<1> SUFFICES ASSUME TypeInv, SwitchRejected PROVE TypeInv'
  OBVIOUS
<1>1. pc' \in Steps
  BY DEF SwitchRejected, Steps
<1> QED
  BY <1>1, TypeReadSwitch, TypeByReading DEF SwitchRejected, TypeInv, TypeOK

LEMMA TypeEndSwitches == TypeInv /\ EndSwitches => TypeInv'
<1> SUFFICES ASSUME TypeInv, EndSwitches PROVE TypeInv'
  OBVIOUS
<1>1. pc' \in Steps
  BY DEF EndSwitches, Steps
<1> QED
  BY <1>1, TypeByReading DEF EndSwitches, TypeInv, TypeOK, KeepsApplied, reading, applied

LEMMA FilledOf ==
  /\ DOMAIN Filled = FromEnvironment \cup DOMAIN cfg
  /\ FromEnvironment \subseteq {"Password", "Gateway.Password"}
  /\ \A o \in DOMAIN cfg : o \notin FromEnvironment => Filled[o] = cfg[o]
<1>1. FromEnvironment \subseteq {"Password", "Gateway.Password"}
  BY DEF FromEnvironment
<1> DEFINE new == [o \in FromEnvironment |->
                     CHOOSE v \in (IF o = "Password" THEN in.env ELSE in.gatewayEnv) : TRUE]
<1>2. DOMAIN new = FromEnvironment
  OBVIOUS
<1>3. Filled = Overlay(new, cfg)
  BY DEF Filled
<1> HIDE DEF new
<1>4. /\ DOMAIN Overlay(new, cfg) = DOMAIN new \cup DOMAIN cfg
      /\ \A o \in DOMAIN cfg \ DOMAIN new : Overlay(new, cfg)[o] = cfg[o]
  BY OverlayOf
<1> QED
  BY <1>1, <1>2, <1>3, <1>4

LEMMA TypeReadPasswords == TypeInv /\ ReadPasswords => TypeInv'
<1> SUFFICES ASSUME TypeInv, ReadPasswords PROVE TypeInv'
  OBVIOUS
<1>1. {"Password", "Gateway.Password"} \subseteq Options
  BY DEF Options, Pointers
<1>2. DOMAIN Filled \subseteq Options
  BY <1>1, FilledOf DEF TypeInv, TypeOK
<1>3. DOMAIN cfg' \subseteq Options
  <2>1. CASE cfg' = Filled
    BY <2>1, <1>2
  <2>2. CASE \E secret \in in.console : cfg' = Overlay(Only("Password", secret), Filled)
    BY <2>2, <1>1, <1>2, OnlyWithin, OverlayWithin
  <2> QED
    BY <2>1, <2>2 DEF ReadPasswords
<1>4. pc' \in Steps
  BY DEF ReadPasswords, Steps
<1> QED
  BY <1>3, <1>4, TypeByReading DEF ReadPasswords, TypeInv, TypeOK, KeepsApplied, reading, applied

\* What Validate fills in.
LEMMA DerivedOf ==
  ASSUME NEW c
  PROVE  /\ DOMAIN Derived(c) \subseteq {"FullScreen", "Title"} \cup DOMAIN c
         /\ DOMAIN c \subseteq DOMAIN Derived(c)
         /\ \A o \in DOMAIN c \ {"FullScreen", "Title"} : Derived(c)[o] = c[o]
         /\ "FullScreen" \in DOMAIN c =>
              Derived(c)["FullScreen"] = c["FullScreen"] \/ Derived(c)["FullScreen"] = "1"
<1> DEFINE new == [o \in {x \in {"FullScreen"} : Given(c, "MultiMon") \/ Given(c, "Span")}
                          \cup {x \in {"Title"} : ~Given(c, "Title")} |->
                     IF o = "Title" THEN c["Server"] ELSE "1"]
<1>1. DOMAIN new \subseteq {"FullScreen", "Title"}
  OBVIOUS
<1>2. "FullScreen" \in DOMAIN new => new["FullScreen"] = "1"
  OBVIOUS
<1>3. Derived(c) = Overlay(new, c)
  BY DEF Derived
<1> HIDE DEF new
<1>4. /\ DOMAIN Overlay(new, c) = DOMAIN new \cup DOMAIN c
      /\ \A o \in DOMAIN new : Overlay(new, c)[o] = new[o]
      /\ \A o \in DOMAIN c \ DOMAIN new : Overlay(new, c)[o] = c[o]
  BY OverlayOf
<1> QED
  BY <1>1, <1>2, <1>3, <1>4

LEMMA TypeValidate == TypeInv /\ Validate => TypeInv'
<1> SUFFICES ASSUME TypeInv, Validate PROVE TypeInv'
  OBVIOUS
<1>1. {"FullScreen", "Title"} \subseteq Options
  BY DEF Options, Booleans, Texts
<1>2. DOMAIN Derived(cfg) \subseteq Options
  BY <1>1, DerivedOf DEF TypeInv, TypeOK
<1>3. DOMAIN cfg' \subseteq Options
  BY <1>2 DEF Validate, TypeInv, TypeOK
<1>4. pc' \in Steps /\ at' \in Nat \ {0}
  BY DEF Validate, Steps
<1> QED
  BY <1>3, <1>4, TypeByReading DEF Validate, TypeInv, TypeOK, KeepsApplied, reading, applied

\* The table is a sequence; nothing else about its length matters.
LEMMA OrderDomain == DOMAIN Order \subseteq Nat \ {0}
BY DEF Order

\* Completing the gateway keeps every option but the method.
LEMMA CompletedOf ==
  ASSUME NEW n
  PROVE  /\ DOMAIN Completed(n) \subseteq DOMAIN cfg \cup {"Gateway.UsageMethod"}
         /\ DOMAIN cfg \subseteq DOMAIN Completed(n)
         /\ \A o \in DOMAIN cfg : Completed(n)[o] = cfg[o]
         /\ Order[n].option # "Gateway.Hostname" => Completed(n) = cfg
<1>1. CASE Order[n].option = "Gateway.Hostname"
  <2> DEFINE one == Only("Gateway.UsageMethod", "1")
  <2>1. DOMAIN one = {"Gateway.UsageMethod"}
    BY OnlyOf
  <2>2. Completed(n) = Overlay(cfg, one)
    BY <1>1 DEF Completed
  <2> HIDE DEF one
  <2>3. /\ DOMAIN Overlay(cfg, one) = DOMAIN cfg \cup DOMAIN one
        /\ \A o \in DOMAIN cfg : Overlay(cfg, one)[o] = cfg[o]
    BY OverlayOf
  <2> QED
    BY <1>1, <2>1, <2>2, <2>3
<1>2. CASE Order[n].option # "Gateway.Hostname"
  BY <1>2 DEF Completed
<1> QED
  BY <1>1, <1>2

\* Writing a property changes that one only.
LEMMA PutOf ==
  ASSUME NEW path, NEW who, Put(path, who)
  PROVE  /\ DOMAIN holds' = DOMAIN holds \cup {path}
         /\ holds'[path] = who
         /\ \A p \in DOMAIN holds \ {path} : holds'[p] = holds[p]
<1> DEFINE one == Only(path, who)
<1>1. DOMAIN one = {path} /\ one[path] = who
  BY OnlyOf
<1>2. holds' = Overlay(one, holds)
  BY DEF Put
<1> HIDE DEF one
<1>3. /\ DOMAIN Overlay(one, holds) = DOMAIN one \cup DOMAIN holds
      /\ \A o \in DOMAIN one : Overlay(one, holds)[o] = one[o]
      /\ \A o \in DOMAIN holds \ DOMAIN one : Overlay(one, holds)[o] = holds[o]
  BY OverlayOf
<1> QED
  BY <1>1, <1>2, <1>3

\* The writers of the properties of the control.
Writers == [by : {"setting"}, n : DOMAIN Order] \cup [by : {"override"}, n : DOMAIN overrides]

LEMMA PutKeepsWriters ==
  ASSUME NEW path, NEW who, Put(path, who), who \in Writers,
         \A p \in DOMAIN holds : holds[p] \in Writers
  PROVE  \A p \in DOMAIN holds' : holds'[p] \in Writers
<1>1. /\ DOMAIN holds' = DOMAIN holds \cup {path}
      /\ holds'[path] = who
      /\ \A p \in DOMAIN holds \ {path} : holds'[p] = holds[p]
  BY PutOf
<1> QED
  BY <1>1

\* A step that writes to the control keeps the types if it keeps these.
LEMMA TypeByWriting ==
  ASSUME TypeInv,
         in' = in, pc' \in Steps, at' \in Nat \ {0}, DOMAIN cfg' \subseteq Options,
         UNCHANGED <<reading, overrides, early>>,
         \A p \in DOMAIN holds' : holds'[p] \in Writers,
         warned' \subseteq DOMAIN Order, refused' \subseteq DOMAIN overrides
  PROVE  TypeInv'
BY DEF TypeInv, TypeOK, Writers, reading

LEMMA TypeCompleted ==
  ASSUME TypeInv, NEW n
  PROVE  DOMAIN Completed(n) \subseteq Options
<1>1. "Gateway.UsageMethod" \in Options
  BY DEF Options, Pointers
<1> QED
  BY <1>1, CompletedOf, ConfigTypes

LEMMA TypeWriteSetting ==
  ASSUME TypeInv, NEW n \in DOMAIN Order, WriteSetting(n)
  PROVE  TypeInv'
<1>1. PICK k \in DOMAIN Order[n].paths : Put(Order[n].paths[k], Row(n))
  BY DEF WriteSetting
<1>2. Row(n) \in Writers
  BY DEF Row, Writers
<1>3. \A p \in DOMAIN holds : holds[p] \in Writers
  BY DEF TypeInv, TypeOK, Writers
<1>4. \A p \in DOMAIN holds' : holds'[p] \in Writers
  BY <1>1, <1>2, <1>3, PutKeepsWriters
<1>5. at' \in Nat \ {0} /\ pc' = pc /\ warned' = warned /\ refused' = refused
  BY OrderDomain DEF WriteSetting
<1>6. DOMAIN cfg' \subseteq Options
  BY TypeCompleted DEF WriteSetting
<1>7. in' = in /\ UNCHANGED <<reading, overrides, early>>
  BY DEF WriteSetting
<1>8. pc \in Steps /\ warned \subseteq DOMAIN Order /\ refused \subseteq DOMAIN overrides
  BY DEF TypeInv, TypeOK
<1> QED
  BY <1>4, <1>5, <1>6, <1>7, <1>8, TypeByWriting

LEMMA TypeWarnSetting ==
  ASSUME TypeInv, NEW n \in DOMAIN Order, WarnSetting(n)
  PROVE  TypeInv'
<1>1. \A p \in DOMAIN holds : holds[p] \in Writers
  BY DEF TypeInv, TypeOK, Writers
<1>2. /\ at' \in Nat \ {0} /\ pc' = pc /\ holds' = holds /\ warned' = warned \cup {n}
      /\ refused' = refused
  BY OrderDomain DEF WarnSetting
<1>3. DOMAIN cfg' \subseteq Options
  BY TypeCompleted DEF WarnSetting
<1>4. in' = in /\ UNCHANGED <<reading, overrides, early>>
  BY DEF WarnSetting
<1>5. pc \in Steps /\ warned \subseteq DOMAIN Order /\ refused \subseteq DOMAIN overrides
  BY DEF TypeInv, TypeOK
<1> QED
  BY <1>1, <1>2, <1>3, <1>4, <1>5, TypeByWriting

LEMMA TypeFailSetting ==
  ASSUME TypeInv, NEW n \in DOMAIN Order, FailSetting(n)
  PROVE  TypeInv'
<1>1. pc' \in Steps
  BY DEF FailSetting, Steps
<1> QED
  BY <1>1, TypeByReading DEF FailSetting, TypeInv, TypeOK, KeepsApplied, reading, applied

LEMMA TypeEndSettings == TypeInv /\ EndSettings => TypeInv'
<1> SUFFICES ASSUME TypeInv, EndSettings PROVE TypeInv'
  OBVIOUS
<1>1. pc' \in Steps /\ at' \in Nat \ {0}
  BY DEF EndSettings, Steps
<1> QED
  BY <1>1, TypeByReading DEF EndSettings, TypeInv, TypeOK, KeepsApplied, reading, applied

LEMMA TypeWriteOverride == TypeInv /\ WriteOverride => TypeInv'
<1> SUFFICES ASSUME TypeInv, WriteOverride PROVE TypeInv'
  OBVIOUS
<1>1. at \in DOMAIN overrides
  BY DEF WriteOverride, TypeInv, TypeOK
<1>2. \A p \in DOMAIN holds : holds[p] \in Writers
  BY DEF TypeInv, TypeOK, Writers
<1>3. Raw(at) \in Writers
  BY <1>1 DEF Raw, Writers
<1>4. \/ Put(overrides[at], Raw(at)) /\ refused' = refused
      \/ holds' = holds /\ refused' = refused \cup {at}
  BY DEF WriteOverride
<1>5. \A p \in DOMAIN holds' : holds'[p] \in Writers
  <2>1. CASE Put(overrides[at], Raw(at))
    BY <2>1, <1>2, <1>3, PutKeepsWriters
  <2>2. CASE holds' = holds
    BY <2>2, <1>2
  <2> QED
    BY <1>4, <2>1, <2>2
<1>6. refused' \subseteq DOMAIN overrides
  BY <1>1, <1>4 DEF TypeInv, TypeOK
<1>7. at' \in Nat \ {0} /\ pc' \in Steps /\ DOMAIN cfg' \subseteq Options /\ warned' \subseteq DOMAIN Order
  BY AtCounts DEF WriteOverride, TypeInv, TypeOK
<1>8. in' = in /\ UNCHANGED <<reading, overrides, early>>
  BY DEF WriteOverride
<1> QED
  BY <1>5, <1>6, <1>7, <1>8, TypeByWriting

LEMMA TypeEndOverrides == TypeInv /\ EndOverrides => TypeInv'
<1> SUFFICES ASSUME TypeInv, EndOverrides PROVE TypeInv'
  OBVIOUS
<1>1. pc' \in Steps
  BY DEF EndOverrides, Steps
<1> QED
  BY <1>1, TypeByReading DEF EndOverrides, TypeInv, TypeOK, KeepsApplied, reading, applied

LEMMA TypeStutter == TypeInv /\ UNCHANGED vars => TypeInv'
BY DEF TypeInv, TypeOK, vars, reading, applied

LEMMA TypeStep == TypeInv /\ [Next]_vars => TypeInv'
<1> SUFFICES ASSUME TypeInv, [Next]_vars PROVE TypeInv'
  OBVIOUS
<1>1. CASE Read
  BY <1>1, TypeFindFile, TypeReadSetting, TypeReadPrompt, TypeReadScreenMode,
     TypeReadPerformance, TypeSkipLine, TypeEndFile, TypeSkipFile, TypeSwitchSetting,
     TypeSwitchConsole, TypeSwitchGatewayConsole, TypeSwitchOverride, TypeSwitchEarly,
     TypeSwitchRejected, TypeEndSwitches, TypeReadPasswords, TypeValidate DEF Read
<1>2. CASE Apply
  BY <1>2, TypeWriteSetting, TypeWarnSetting, TypeFailSetting, TypeEndSettings,
     TypeWriteOverride, TypeEndOverrides DEF Apply
<1>3. CASE Stopped \/ UNCHANGED vars
  BY <1>3, TypeStutter DEF Stopped
<1> QED
  BY <1>1, <1>2, <1>3 DEF Next

\* Every variable keeps its type, for every input.
THEOREM TypeCorrect == Spec => []TypeOK
<1>1. TypeInv => TypeOK
  BY DEF TypeInv
<1> QED
  BY <1>1, TypeInit, TypeStep, PTL DEF Spec

-----------------------------------------------------------------------------
(* Every setting that was asked for is written or warned about.            *)

Served(n) == Written(n) \/ n \in warned

\* The settings the loop has passed are served; after it, all of them are.
ServedInv ==
  /\ pc = "apply" => \A n \in DOMAIN Order : n < at /\ Wanted(n) => Served(n)
  /\ pc \in {"override", "done"} => \A n \in DOMAIN Order : Wanted(n) => Served(n)

\* Reading ends where applying starts.
LEMMA ReadSteps ==
  ASSUME Read
  PROVE  pc' \notin {"override", "done"} /\ (pc' = "apply" => at' = 1 /\ pc = "validate")
<1>1. CASE FindFile
  BY <1>1 DEF FindFile
<1>2. CASE ReadLine
  BY <1>2 DEF ReadLine
<1>3. CASE EndFile
  BY <1>3 DEF EndFile
<1>4. CASE ReadSwitch /\ pc' \in {pc, "failed"}
  BY <1>4 DEF ReadSwitch
<1>5. CASE EndSwitches
  BY <1>5 DEF EndSwitches
<1>6. CASE ReadPasswords
  BY <1>6 DEF ReadPasswords
<1>7. CASE Validate
  BY <1>7 DEF Validate
<1>8. ReadSetting \/ ReadPrompt \/ ReadScreenMode \/ ReadPerformance \/ SkipLine => ReadLine
  BY DEF ReadSetting, ReadPrompt, ReadScreenMode, ReadPerformance, SkipLine
<1>9. \/ SkipFile \/ SwitchSetting \/ SwitchConsole \/ SwitchGatewayConsole
      \/ SwitchOverride \/ SwitchEarly \/ SwitchRejected
      => ReadSwitch /\ pc' \in {pc, "failed"}
  BY DEF SkipFile, SwitchSetting, SwitchConsole, SwitchGatewayConsole, SwitchOverride,
         SwitchEarly, SwitchRejected
<1> QED
  BY <1>1, <1>2, <1>3, <1>4, <1>5, <1>6, <1>7, <1>8, <1>9 DEF Read

LEMMA GivenAfter ==
  ASSUME NEW n, cfg' = Completed(n), NEW o, o # "Gateway.UsageMethod"
  PROVE  /\ Given(cfg', o) <=> Given(cfg, o)
         /\ o \in DOMAIN cfg => cfg'[o] = cfg[o]
BY CompletedOf DEF Given

\* Completing the gateway asks for nothing that the loop has passed.
LEMMA WantedBefore ==
  ASSUME NEW n \in DOMAIN Order, Due(n), cfg' = Completed(n),
         NEW m \in DOMAIN Order, m <= n, Wanted(m)'
  PROVE  Wanted(m)
<1>1. CASE Order[n].option # "Gateway.Hostname"
  <2>1. cfg' = cfg
    BY <1>1, CompletedOf
  <2> QED
    BY <2>1 DEF Wanted, GatewayInUse
<1>2. CASE Order[n].option = "Gateway.Hostname"
  <2>1. Given(cfg, "Gateway.Hostname")
    BY <1>2 DEF Due, Wanted, Always
  <2>2. Order[m].option # "Gateway.UsageMethod"
    BY <1>2, OrderAssumption, OrderDomain
  <2>3. Given(cfg', Order[m].option) <=> Given(cfg, Order[m].option)
    BY <2>2, GivenAfter
  <2>4. Given(cfg', "Password") <=> Given(cfg, "Password")
    BY GivenAfter
  <2>5. Order[m].option = "DrivesToRedirect" /\ Given(cfg, Order[m].option)
          => cfg'[Order[m].option] = cfg[Order[m].option]
    BY <2>2, GivenAfter DEF Given
  <2> QED
    BY <2>1, <2>3, <2>4, <2>5 DEF Wanted, GatewayInUse
<1> QED
  BY <1>1, <1>2

\* A setting stays written unless another setting takes its place.
LEMMA WrittenKept ==
  ASSUME NEW m \in DOMAIN Order, Written(m), NEW path, NEW who, Put(path, who),
         who.by = "override" \/ \A k \in DOMAIN Order[m].paths : Order[m].paths[k] # path
  PROVE  Written(m)'
<1>1. PICK k \in DOMAIN Order[m].paths :
        /\ Order[m].paths[k] \in DOMAIN holds
        /\ \/ holds[Order[m].paths[k]] = Row(m)
           \/ holds[Order[m].paths[k]].by = "override"
  BY DEF Written
<1> DEFINE p == Order[m].paths[k]
<1>2. /\ DOMAIN holds' = DOMAIN holds \cup {path}
      /\ holds'[path] = who
      /\ \A q \in DOMAIN holds \ {path} : holds'[q] = holds[q]
  BY PutOf
<1>3. p \in DOMAIN holds' /\ (holds'[p] = Row(m) \/ holds'[p].by = "override")
  <2>1. CASE p = path
    BY <2>1, <1>1, <1>2
  <2>2. CASE p # path
    BY <2>2, <1>1, <1>2
  <2> QED
    BY <2>1, <2>2
<1> QED
  BY <1>3 DEF Written

LEMMA ServedByWrite ==
  ASSUME TypeInv, ServedInv, NEW n \in DOMAIN Order, WriteSetting(n)
  PROVE  ServedInv'
<1>1. PICK k \in DOMAIN Order[n].paths : Put(Order[n].paths[k], Row(n))
  BY DEF WriteSetting
<1>2. Due(n) /\ cfg' = Completed(n) /\ pc = "apply" /\ pc' = pc /\ at' = n + 1 /\ warned' = warned
  BY DEF WriteSetting, Due
<1> DEFINE path == Order[n].paths[k]
<1>3. path \in DOMAIN holds' /\ holds'[path] = Row(n)
  <2> DEFINE who == Row(n)
  <2>1. Put(path, who)
    BY <1>1
  <2> HIDE DEF path, who
  <2>2. DOMAIN holds' = DOMAIN holds \cup {path} /\ holds'[path] = who
    BY <2>1, PutOf
  <2> USE DEF who
  <2> QED
    BY <2>2
<1>4. ASSUME NEW m \in DOMAIN Order, m < n + 1, Wanted(m)'
      PROVE  Served(m)'
  <2>1. CASE m = n
    BY <2>1, <1>3 DEF Served, Written
  <2>2. CASE m # n
    <3>1. m \in Nat /\ n \in Nat /\ at \in Nat
      BY OrderDomain DEF TypeInv, TypeOK
    <3>2. m < n
      BY <3>1, <2>2, <1>4
    <3>3. Wanted(m)
      BY <3>1, <3>2, <1>2, <1>4, WantedBefore
    <3>4. m < at
      BY <3>1, <3>2, <3>3, <1>2 DEF Due
    <3>5. Served(m)
      BY <3>3, <3>4, <1>2 DEF ServedInv
    <3>6. \A j \in DOMAIN Order[m].paths : Order[m].paths[j] # path
      BY <2>2, OrderAssumption
    <3>7. Written(m) => Written(m)'
      BY <1>1, <3>6, WrittenKept
    <3> QED
      BY <3>5, <3>7, <1>2 DEF Served
  <2> QED
    BY <2>1, <2>2
<1> QED
  BY <1>2, <1>4 DEF ServedInv

LEMMA ServedByWarning ==
  ASSUME TypeInv, ServedInv, NEW n \in DOMAIN Order, WarnSetting(n)
  PROVE  ServedInv'
<1>1. /\ Due(n) /\ cfg' = Completed(n) /\ pc = "apply" /\ pc' = pc /\ at' = n + 1
      /\ warned' = warned \cup {n} /\ holds' = holds
  BY DEF WarnSetting, Due
<1>2. ASSUME NEW m \in DOMAIN Order, m < n + 1, Wanted(m)'
      PROVE  Served(m)'
  <2>1. CASE m = n
    BY <2>1, <1>1 DEF Served
  <2>2. CASE m # n
    <3>1. m \in Nat /\ n \in Nat /\ at \in Nat
      BY OrderDomain DEF TypeInv, TypeOK
    <3>2. m < n
      BY <3>1, <2>2, <1>2
    <3>3. Wanted(m)
      BY <3>1, <3>2, <1>1, <1>2, WantedBefore
    <3>4. m < at
      BY <3>1, <3>2, <3>3, <1>1 DEF Due
    <3>5. Served(m)
      BY <3>3, <3>4, <1>1 DEF ServedInv
    <3> QED
      BY <3>5, <1>1 DEF Served, Written
  <2> QED
    BY <2>1, <2>2
<1> QED
  BY <1>1, <1>2 DEF ServedInv

LEMMA ServedAtEnd ==
  ASSUME TypeInv, ServedInv, EndSettings
  PROVE  ServedInv'
<1>1. pc = "apply" /\ pc' = "override" /\ UNCHANGED <<cfg, holds, warned>>
  BY DEF EndSettings, applied
<1>2. ASSUME NEW n \in DOMAIN Order, Wanted(n)
      PROVE  Served(n)
  <2>1. n < at
    BY <1>2, OrderDomain DEF EndSettings, TypeInv, TypeOK
  <2> QED
    BY <2>1, <1>1, <1>2 DEF ServedInv
<1> QED
  BY <1>1, <1>2 DEF ServedInv, Served, Written, Wanted, GatewayInUse

LEMMA ServedByOverride ==
  ASSUME TypeInv, ServedInv, WriteOverride
  PROVE  ServedInv'
<1>1. pc = "override" /\ pc' = pc /\ cfg' = cfg /\ warned' = warned
  BY DEF WriteOverride
<1>2. \/ Put(overrides[at], Raw(at)) \/ holds' = holds
  BY DEF WriteOverride
<1>3. ASSUME NEW n \in DOMAIN Order, Wanted(n)'
      PROVE  Served(n)'
  <2>1. Served(n)
    BY <1>1, <1>3 DEF ServedInv, Wanted, GatewayInUse
  <2>2. Written(n) => Written(n)'
    <3>1. CASE Put(overrides[at], Raw(at))
      <4>1. Raw(at).by = "override"
        BY DEF Raw
      <4> QED
        BY <3>1, <4>1, WrittenKept
    <3>2. CASE holds' = holds
      BY <3>2 DEF Written
    <3> QED
      BY <1>2, <3>1, <3>2
  <2> QED
    BY <2>1, <2>2, <1>1 DEF Served
<1> QED
  BY <1>1, <1>3 DEF ServedInv

LEMMA ServedByRest ==
  ASSUME ServedInv, EndOverrides \/ Stopped \/ UNCHANGED vars
  PROVE  ServedInv'
<1>1. UNCHANGED <<at, cfg, holds, warned>> /\ (pc' = pc \/ (pc = "override" /\ pc' = "done"))
  BY DEF EndOverrides, Stopped, vars, applied
<1> QED
  BY <1>1 DEF ServedInv, Served, Written, Wanted, GatewayInUse

LEMMA ServedStep == TypeInv /\ ServedInv /\ [Next]_vars => ServedInv'
<1> SUFFICES ASSUME TypeInv, ServedInv, [Next]_vars PROVE ServedInv'
  OBVIOUS
<1>1. CASE Read
  <2>1. pc' \notin {"override", "done"} /\ (pc' = "apply" => at' = 1)
    BY <1>1, ReadSteps
  <2>2. \A n \in DOMAIN Order : ~(n < 1)
    BY OrderDomain
  <2> QED
    BY <2>1, <2>2 DEF ServedInv
<1>2. ASSUME NEW n \in DOMAIN Order, FailSetting(n) PROVE ServedInv'
  BY <1>2 DEF FailSetting, ServedInv
<1>3. CASE Apply
  BY <1>2, <1>3, ServedByWrite, ServedByWarning, ServedAtEnd, ServedByOverride, ServedByRest DEF Apply
<1> QED
  BY <1>1, <1>3, ServedByRest DEF Next

\* Whatever the control lacks or refuses, a setting that was asked for is written,
\* overridden by the user, or named in a warning.
THEOREM WrittenOrWarnedTheorem == Spec => []WrittenOrWarned
<1>1. Init => ServedInv
  BY DEF Init, ServedInv
<1>2. ServedInv => WrittenOrWarned
  BY DEF ServedInv, Served, WrittenOrWarned
<1> QED
  BY <1>1, <1>2, TypeInit, TypeStep, ServedStep, PTL DEF Spec

-----------------------------------------------------------------------------
(* The overrides win over the settings, and the later over the earlier.    *)

Overridden(n) ==
  \/ n \in refused
  \/ \E m \in DOMAIN overrides :
       /\ n <= m /\ overrides[m] = overrides[n]
       /\ overrides[n] \in DOMAIN holds /\ holds[overrides[n]] = Raw(m)

\* The overrides the loop has passed have won, or have been warned about.
OverrideInv ==
  /\ pc = "override" => \A n \in DOMAIN overrides : n < at => Overridden(n)
  /\ pc = "done" => \A n \in DOMAIN overrides : Overridden(n)

LEMMA OverridePositions == TypeInv => DOMAIN overrides = 1..Len(overrides) /\ at \in Nat \ {0}
BY DEF TypeInv, TypeOK

LEMMA OverriddenByWrite ==
  ASSUME NEW k \in DOMAIN overrides, Put(overrides[k], Raw(k)), k \in Nat,
         overrides' = overrides, refused' = refused,
         NEW n \in DOMAIN overrides, n \in Nat, n <= k, n = k \/ Overridden(n)
  PROVE  Overridden(n)'
<1> DEFINE path == overrides[k]  who == Raw(k)
<1>1. Put(path, who)
  OBVIOUS
<1> HIDE DEF path, who
<1>2. /\ DOMAIN holds' = DOMAIN holds \cup {path}
      /\ holds'[path] = who
      /\ \A q \in DOMAIN holds \ {path} : holds'[q] = holds[q]
  BY <1>1, PutOf
<1> USE DEF path, who
<1>3. CASE overrides[n] = overrides[k]
  <2>1. overrides[n] \in DOMAIN holds' /\ holds'[overrides[n]] = Raw(k)
    BY <1>2, <1>3
  <2> QED
    BY <2>1, <1>3 DEF Overridden, Raw
<1>4. CASE overrides[n] # overrides[k]
  <2>1. Overridden(n)
    BY <1>4
  <2>2. overrides[n] \in DOMAIN holds
          => overrides[n] \in DOMAIN holds' /\ holds'[overrides[n]] = holds[overrides[n]]
    BY <1>2, <1>4
  <2> QED
    BY <2>1, <2>2 DEF Overridden, Raw
<1> QED
  BY <1>3, <1>4

LEMMA OverrideByWrite ==
  ASSUME TypeInv, OverrideInv, WriteOverride
  PROVE  OverrideInv'
<1>1. /\ pc = "override" /\ pc' = pc /\ overrides' = overrides /\ at' = at + 1
      /\ at <= Len(overrides)
      /\ \/ Put(overrides[at], Raw(at)) /\ refused' = refused
         \/ refused' = refused \cup {at} /\ holds' = holds
  BY DEF WriteOverride
<1>2. at \in DOMAIN overrides /\ at \in Nat
  BY <1>1, OverridePositions
<1>3. ASSUME NEW n \in DOMAIN overrides, n < at + 1
      PROVE  Overridden(n)'
  <2>1. n \in Nat /\ n <= at /\ (n # at => n < at)
    BY <1>2, <1>3, OverridePositions
  <2>2. n = at \/ Overridden(n)
    BY <1>1, <2>1 DEF OverrideInv
  <2>3. CASE Put(overrides[at], Raw(at)) /\ refused' = refused
    BY <1>1, <1>2, <2>1, <2>2, <2>3, OverriddenByWrite
  <2>4. CASE refused' = refused \cup {at} /\ holds' = holds
    BY <1>1, <2>2, <2>4 DEF Overridden, Raw
  <2> QED
    BY <1>1, <2>3, <2>4
<1> QED
  BY <1>1, <1>3 DEF OverrideInv

LEMMA OverrideStep == TypeInv /\ OverrideInv /\ [Next]_vars => OverrideInv'
<1> SUFFICES ASSUME TypeInv, OverrideInv, [Next]_vars PROVE OverrideInv'
  OBVIOUS
<1>1. CASE Read
  BY <1>1, ReadSteps DEF OverrideInv
<1>2. ASSUME NEW n \in DOMAIN Order, WriteSetting(n) \/ WarnSetting(n) \/ FailSetting(n)
      PROVE  OverrideInv'
  BY <1>2 DEF WriteSetting, WarnSetting, FailSetting, Due, OverrideInv
<1>3. CASE EndSettings
  <2>1. pc' = "override" /\ at' = 1 /\ overrides' = overrides
    BY <1>3 DEF EndSettings
  <2>2. \A n \in DOMAIN overrides : ~(n < 1)
    BY OverridePositions
  <2> QED
    BY <2>1, <2>2 DEF OverrideInv
<1>4. CASE EndOverrides
  <2>1. /\ pc = "override" /\ pc' = "done" /\ at > Len(overrides)
        /\ UNCHANGED <<overrides, holds, refused>>
    BY <1>4 DEF EndOverrides, applied
  <2>2. \A n \in DOMAIN overrides : n < at
    BY <2>1, OverridePositions
  <2>3. \A n \in DOMAIN overrides : Overridden(n)
    BY <2>1, <2>2 DEF OverrideInv
  <2> QED
    BY <2>1, <2>3 DEF OverrideInv, Overridden, Raw
<1>5. CASE Stopped \/ UNCHANGED vars
  BY <1>5 DEF Stopped, vars, applied, OverrideInv, Overridden, Raw
<1> QED
  BY <1>1, <1>2, <1>3, <1>4, <1>5, OverrideByWrite DEF Next, Apply

\* Whatever settings are written before, each override is what its property holds
\* in the end, unless a later one for the same property is, or it was refused.
THEOREM OverridesWinTheorem == Spec => []OverridesWin
<1>1. Init => OverrideInv
  BY DEF Init, OverrideInv
<1>2. OverrideInv => OverridesWin
  BY DEF OverrideInv, Overridden, OverridesWin
<1> QED
  BY <1>1, <1>2, TypeInit, TypeStep, OverrideStep, PTL DEF Spec

-----------------------------------------------------------------------------
(* The switches win over the file, and the later over the earlier.         *)

Apart == {"Password", "Gateway.Password", "Title"}

\* Of the arguments before b, the last to mention an option has set it in c.
InForce(args, b, c) ==
  \A k \in DOMAIN args : \A o \in DOMAIN SwitchSays(args[k]) \ Apart :
    /\ k < b
    /\ \A j \in DOMAIN args : k < j /\ j < b => o \notin DOMAIN SwitchSays(args[j])
    => o \in DOMAIN c /\ c[o] = SwitchSays(args[k])[o]

LEMMA InForceNext ==
  ASSUME NEW args \in Seq(Lines), NEW b \in DOMAIN args, NEW c, NEW new,
         InForce(args, b, c),
         DOMAIN new = DOMAIN SwitchSays(args[b]) \cup DOMAIN c,
         \A o \in DOMAIN SwitchSays(args[b]) : new[o] = SwitchSays(args[b])[o],
         \A o \in DOMAIN c \ DOMAIN SwitchSays(args[b]) : new[o] = c[o]
  PROVE  InForce(args, b + 1, new)
<1>1. DOMAIN args \subseteq Nat /\ b \in Nat
  OBVIOUS
<1>2. ASSUME NEW k \in DOMAIN args, NEW o \in DOMAIN SwitchSays(args[k]) \ Apart, k < b + 1,
             \A j \in DOMAIN args : k < j /\ j < b + 1 => o \notin DOMAIN SwitchSays(args[j])
      PROVE  o \in DOMAIN new /\ new[o] = SwitchSays(args[k])[o]
  <2>1. k \in Nat
    BY <1>1
  <2>2. CASE k = b
    BY <1>2, <2>2
  <2>3. CASE k # b
    <3>1. k < b /\ b < b + 1
      BY <1>1, <1>2, <2>1, <2>3
    <3>2. o \notin DOMAIN SwitchSays(args[b])
      BY <1>2, <3>1
    <3>3. \A j \in DOMAIN args : k < j /\ j < b => o \notin DOMAIN SwitchSays(args[j])
      <4>1. \A j \in DOMAIN args : j < b => j < b + 1
        BY <1>1
      <4> QED
        BY <1>2, <4>1
    <3>4. o \in DOMAIN c /\ c[o] = SwitchSays(args[k])[o]
      BY <1>2, <3>1, <3>3 DEF InForce
    <3> QED
      BY <3>2, <3>4
  <2> QED
    BY <2>2, <2>3
<1> QED
  BY <1>2 DEF InForce

\* An argument that says nothing.
LEMMA InForceSilent ==
  ASSUME NEW args \in Seq(Lines), NEW b \in DOMAIN args, NEW c,
         InForce(args, b, c), DOMAIN SwitchSays(args[b]) = {}
  PROVE  InForce(args, b + 1, c)
BY InForceNext

\* After the switches, no step changes what they have said.
LEMMA InForceKept ==
  ASSUME NEW args, NEW b, NEW c, NEW new, InForce(args, b, c),
         \A o \in DOMAIN c \ (Apart \cup {"ReadPwStdin"}) :
           /\ o \in DOMAIN new
           /\ new[o] = c[o] \/ (o = "FullScreen" /\ new[o] = "1")
  PROVE  InForce(args, b, new)
<1>1. ASSUME NEW k \in DOMAIN args, NEW o \in DOMAIN SwitchSays(args[k]) \ Apart,
             o \in DOMAIN c, c[o] = SwitchSays(args[k])[o]
      PROVE  o \in DOMAIN new /\ new[o] = SwitchSays(args[k])[o]
  <2>1. /\ o # "ReadPwStdin"
        /\ o = "FullScreen" => SwitchSays(args[k])[o] = "1"
    BY <1>1, SwitchWordsOf
  <2> QED
    BY <1>1, <2>1
<1> QED
  BY <1>1 DEF InForce

\* While the switches are read, the earlier ones are in force; then all of them.
SwitchInv ==
  /\ pc \in {"start", "switches"} => InForce(in.args, at, cfg)
  /\ pc = "start" => at = 1
  /\ pc \in {"passwords", "validate", "apply", "override", "done"} =>
       InForce(in.args, Len(in.args) + 1, cfg)

LEMMA InForceAtFirst ==
  ASSUME NEW args \in Seq(Lines), NEW c
  PROVE  InForce(args, 1, c)
<1>1. \A k \in DOMAIN args : ~(k < 1)
  OBVIOUS
<1> QED
  BY <1>1 DEF InForce

LEMMA SwitchInit == Init => SwitchInv
<1> SUFFICES ASSUME Init PROVE SwitchInv
  OBVIOUS
<1>1. in.args \in Seq(Lines) /\ pc = "start" /\ at = 1
  BY InputTypes DEF Init
<1> QED
  BY <1>1, InForceAtFirst DEF SwitchInv

LEMMA SwitchArgs == TypeInv => in.args \in Seq(Lines)
BY InputTypes DEF TypeInv

\* An option the switches say nothing about may take any value.
LEMMA InForceWithout ==
  ASSUME NEW args, NEW b, NEW c, NEW o \in Apart \cup {"ReadPwStdin"}, NEW v, InForce(args, b, c)
  PROVE  InForce(args, b, Overlay(Only(o, v), c))
<1> DEFINE one == Only(o, v)
<1>1. DOMAIN one = {o}
  BY OnlyOf
<1> HIDE DEF one
<1>2. /\ DOMAIN Overlay(one, c) = DOMAIN one \cup DOMAIN c
      /\ \A q \in DOMAIN c \ DOMAIN one : Overlay(one, c)[q] = c[q]
  BY OverlayOf
<1> DEFINE new == Overlay(one, c)
<1> HIDE DEF new
<1>3. \A q \in DOMAIN c \ (Apart \cup {"ReadPwStdin"}) : q \in DOMAIN new /\ new[q] = c[q]
  BY <1>1, <1>2 DEF new
<1>4. InForce(args, b, new)
  BY <1>3, InForceKept
<1> QED
  BY <1>4 DEF new, one

\* The arguments that set nothing, or only what is apart.
LEMMA SwitchBySilent ==
  ASSUME TypeInv, SwitchInv, ReadSwitch, pc' = pc,
         switch.key \in {".rdp", "set", "help", "version"} \/ FromConsole(switch),
         \/ cfg' = cfg
         \/ \E o \in Apart \cup {"ReadPwStdin"} : \E v : cfg' = Overlay(Only(o, v), cfg)
  PROVE  SwitchInv'
<1>1. pc = "switches" /\ in' = in /\ at' = at + 1 /\ at \in DOMAIN in.args
  BY TypeReadSwitch DEF ReadSwitch
<1>2. DOMAIN SwitchSays(in.args[at]) = {}
  BY SilentKeys DEF switch
<1>3. InForce(in.args, at, cfg)
  BY <1>1 DEF SwitchInv
<1>4. InForce(in.args, at + 1, cfg)
  <2> DEFINE args == in.args  b == at  c == cfg
  <2>1. args \in Seq(Lines) /\ b \in DOMAIN args /\ InForce(args, b, c) /\ DOMAIN SwitchSays(args[b]) = {}
    BY <1>1, <1>2, <1>3, SwitchArgs
  <2> HIDE DEF args, b, c
  <2>2. InForce(args, b + 1, c)
    BY <2>1, InForceSilent
  <2> USE DEF args, b, c
  <2> QED
    BY <2>2
<1>5. InForce(in.args, at + 1, cfg')
  BY <1>4, InForceWithout
<1> QED
  BY <1>1, <1>5 DEF SwitchInv

LEMMA SwitchBySetting ==
  ASSUME TypeInv, SwitchInv, SwitchSetting
  PROVE  SwitchInv'
<1>1. pc = "switches" /\ pc' = pc /\ in' = in /\ at' = at + 1 /\ at \in DOMAIN in.args
  BY TypeReadSwitch DEF SwitchSetting, ReadSwitch
<1> DEFINE args == in.args  b == at  c == cfg  says == SwitchSays(args[b])  new == cfg'
<1>2. /\ args \in Seq(Lines) /\ b \in DOMAIN args /\ InForce(args, b, c)
      /\ new = Overlay(says, c) /\ says = SwitchSays(args[b])
  BY <1>1, SwitchArgs DEF SwitchSetting, SwitchInv, switch
<1>3. in'.args = args /\ at' = b + 1 /\ cfg' = new
  BY <1>1
<1> HIDE DEF args, b, c, says, new
<1>4. /\ DOMAIN Overlay(says, c) = DOMAIN says \cup DOMAIN c
      /\ \A o \in DOMAIN says : Overlay(says, c)[o] = says[o]
      /\ \A o \in DOMAIN c \ DOMAIN says : Overlay(says, c)[o] = c[o]
  BY OverlayOf
<1>5. InForce(args, b + 1, new)
  BY <1>2, <1>4, InForceNext
<1> QED
  BY <1>1, <1>3, <1>5 DEF SwitchInv

LEMMA SwitchByReading == TypeInv /\ SwitchInv /\ Read => SwitchInv'
<1> SUFFICES ASSUME TypeInv, SwitchInv, Read PROVE SwitchInv'
  OBVIOUS
<1>1. CASE FindFile
  BY <1>1 DEF FindFile, SwitchInv
<1>2. CASE ReadLine
  BY <1>2 DEF ReadLine, SwitchInv
<1>3. CASE EndFile
  <2>1. pc' = "switches" /\ at' = 1 /\ in' = in
    BY <1>3 DEF EndFile
  <2>2. InForce(in.args, 1, cfg')
    BY SwitchArgs, InForceAtFirst
  <2> QED
    BY <2>1, <2>2 DEF SwitchInv
<1>4. CASE SkipFile
  BY <1>4, SwitchBySilent DEF SkipFile, IsFile, switch
<1>5. CASE SwitchConsole
  <2>1. "ReadPwStdin" \in Apart \cup {"ReadPwStdin"}
    OBVIOUS
  <2> QED
    BY <1>5, <2>1, SwitchBySilent DEF SwitchConsole
<1>6. CASE SwitchGatewayConsole
  <2>1. "Gateway.Password" \in Apart
    BY DEF Apart
  <2>2. PICK v : cfg' = Overlay(Only("Gateway.Password", v), cfg)
    BY <1>6 DEF SwitchGatewayConsole
  <2> QED
    BY <1>6, <2>1, <2>2, SwitchBySilent DEF SwitchGatewayConsole
<1>7. CASE SwitchOverride
  BY <1>7, SwitchBySilent DEF SwitchOverride
<1>8. CASE SwitchEarly
  BY <1>8, SwitchBySilent DEF SwitchEarly
<1>9. CASE SwitchRejected
  BY <1>9 DEF SwitchRejected, SwitchInv
<1>10. CASE EndSwitches
  <2>1. /\ pc = "switches" /\ pc' \in {"exit", "passwords"} /\ at > Len(in.args)
        /\ UNCHANGED <<in, at, cfg>>
    BY <1>10 DEF EndSwitches
  <2>2. \A k \in DOMAIN in.args : k < at /\ k < Len(in.args) + 1
    BY <2>1, SwitchArgs DEF TypeInv, TypeOK
  <2>3. InForce(in.args, Len(in.args) + 1, cfg)
    BY <2>1, <2>2 DEF SwitchInv, InForce
  <2> QED
    BY <2>1, <2>3 DEF SwitchInv
<1>11. CASE ReadPasswords
  <2>1. pc = "passwords" /\ pc' \in {"validate", "failed"} /\ in' = in
    BY <1>11 DEF ReadPasswords
  <2>2. InForce(in.args, Len(in.args) + 1, cfg)
    BY <2>1 DEF SwitchInv
  <2>3. {"Password", "Gateway.Password"} \subseteq Apart
    BY DEF Apart
  <2>4. InForce(in.args, Len(in.args) + 1, Filled)
    BY <2>2, <2>3, FilledOf, InForceKept
  <2>5. InForce(in.args, Len(in.args) + 1, cfg')
    <3>1. \/ cfg' = Filled
          \/ \E v : cfg' = Overlay(Only("Password", v), Filled)
      BY <1>11 DEF ReadPasswords
    <3> QED
      BY <2>3, <2>4, <3>1, InForceWithout
  <2> QED
    BY <2>1, <2>5 DEF SwitchInv
<1>12. CASE Validate
  <2>1. pc = "validate" /\ pc' \in {"exit", "apply", "failed"} /\ in' = in
        /\ cfg' \in {cfg, Derived(cfg)}
    BY <1>12 DEF Validate
  <2>2. InForce(in.args, Len(in.args) + 1, cfg)
    BY <2>1 DEF SwitchInv
  <2>3. InForce(in.args, Len(in.args) + 1, Derived(cfg))
    <3>1. "Title" \in Apart
      BY DEF Apart
    <3>2. \A o \in DOMAIN cfg \ (Apart \cup {"ReadPwStdin"}) :
            /\ o \in DOMAIN Derived(cfg)
            /\ \/ Derived(cfg)[o] = cfg[o]
               \/ o = "FullScreen" /\ Derived(cfg)[o] = "1"
      BY <3>1, DerivedOf
    <3> QED
      BY <2>2, <3>2, InForceKept
  <2> QED
    BY <2>1, <2>2, <2>3 DEF SwitchInv
<1>13. ReadSetting \/ ReadPrompt \/ ReadScreenMode \/ ReadPerformance \/ SkipLine => ReadLine
  BY DEF ReadSetting, ReadPrompt, ReadScreenMode, ReadPerformance, SkipLine
<1> QED
  BY <1>1, <1>2, <1>3, <1>4, <1>5, <1>6, <1>7, <1>8, <1>9, <1>10, <1>11, <1>12, <1>13,
     SwitchBySetting DEF Read

LEMMA SwitchByApplying == TypeInv /\ SwitchInv /\ Apply => SwitchInv'
<1> SUFFICES ASSUME TypeInv, SwitchInv, Apply PROVE SwitchInv'
  OBVIOUS
<1>1. ASSUME NEW n \in DOMAIN Order, WriteSetting(n) \/ WarnSetting(n)
      PROVE  SwitchInv'
  <2>1. pc = "apply" /\ pc' = pc /\ in' = in /\ cfg' = Completed(n)
    BY <1>1 DEF WriteSetting, WarnSetting, Due
  <2>2. InForce(in.args, Len(in.args) + 1, cfg)
    BY <2>1 DEF SwitchInv
  <2>3. InForce(in.args, Len(in.args) + 1, Completed(n))
    BY <2>2, CompletedOf, InForceKept
  <2> QED
    BY <2>1, <2>3 DEF SwitchInv
<1>2. ASSUME NEW n \in DOMAIN Order, FailSetting(n)
      PROVE  SwitchInv'
  BY <1>2 DEF FailSetting, SwitchInv
<1>3. CASE EndSettings \/ WriteOverride \/ EndOverrides
  <2>1. pc \in {"apply", "override"} /\ pc' \in {"override", "done"} /\ in' = in /\ cfg' = cfg
    BY <1>3 DEF EndSettings, WriteOverride, EndOverrides
  <2> QED
    BY <2>1 DEF SwitchInv
<1> QED
  BY <1>1, <1>2, <1>3 DEF Apply

\* In the end each option a switch mentions is what the last such switch says.
THEOREM SwitchesWinTheorem == Spec => []SwitchesWin
<1>1. TypeInv /\ SwitchInv => SwitchesWin
  <2> SUFFICES ASSUME TypeInv, SwitchInv, pc = "done",
                      NEW k \in DOMAIN in.args, NEW o \in DOMAIN SwitchSays(in.args[k]) \ Apart,
                      \A j \in DOMAIN in.args : k < j => o \notin DOMAIN SwitchSays(in.args[j])
               PROVE  cfg[o] = SwitchSays(in.args[k])[o]
    BY DEF SwitchesWin, Apart
  <2>1. k < Len(in.args) + 1
    BY SwitchArgs
  <2> QED
    BY <2>1 DEF SwitchInv, InForce
<1>2. TypeInv /\ SwitchInv /\ [Next]_vars => SwitchInv'
  <2>1. SwitchInv /\ (Stopped \/ UNCHANGED vars) => SwitchInv'
    BY DEF Stopped, vars, SwitchInv
  <2> QED
    BY <2>1, SwitchByReading, SwitchByApplying DEF Next
<1> QED
  BY <1>1, <1>2, TypeInit, TypeStep, SwitchInit, PTL DEF Spec

-----------------------------------------------------------------------------
(* What a line of the file changes.                                        *)

LEMMA FileWordsOf ==
  /\ \A key : <<key, "Server">> \in Words(FileWords)
                <=> key \in {"full address", "alternate full address"}
  /\ \A key : <<key, "Server">> \in Words(FileWords) => <<key, "Server">> \in FileWords.value
  /\ \A key : <<key, "Password">> \in Words(FileWords) <=> key = "password 51"
  /\ \A key : <<key, "Password">> \in Words(FileWords) => <<key, "Password">> \in FileWords.value
  /\ \A key : \A o \in {"Gateway.Password", "ReadPwStdin"} : <<key, o>> \notin Words(FileWords)
  /\ \A key : \A o \in {"Server", "Password", "Gateway.Password", "ReadPwStdin"} :
       <<key, o>> \notin FileWords.split
<1>1. \A key : <<key, "Server">> \in FileWords.value
                <=> key \in {"full address", "alternate full address"}
  <2>1. \A key : <<key, "Server">> \in FileWords.value
          => key \in {"full address", "alternate full address"}
    BY DEF FileWords
  <2>2. <<"full address", "Server">> \in FileWords.value
    BY DEF FileWords
  <2>3. <<"alternate full address", "Server">> \in FileWords.value
    BY DEF FileWords
  <2> QED
    BY <2>1, <2>2, <2>3
<1>2. \A key : <<key, "Password">> \in FileWords.value <=> key = "password 51"
  <2>1. \A key : <<key, "Password">> \in FileWords.value => key = "password 51"
    BY DEF FileWords
  <2>2. <<"password 51", "Password">> \in FileWords.value
    BY DEF FileWords
  <2> QED
    BY <2>1, <2>2
<1>3. \A key : \A o \in {"Gateway.Password", "ReadPwStdin"} : <<key, o>> \notin FileWords.value
  <2>1. \A key : <<key, "Gateway.Password">> \notin FileWords.value
    BY DEF FileWords
  <2>2. \A key : <<key, "ReadPwStdin">> \notin FileWords.value
    BY DEF FileWords
  <2> QED
    BY <2>1, <2>2
<1>4. \A key : \A o \in {"Server", "Password", "Gateway.Password", "ReadPwStdin"} :
        /\ <<key, o>> \notin FileWords.flag
        /\ <<key, o>> \notin FileWords.on
        /\ <<key, o>> \notin FileWords.off
        /\ <<key, o>> \notin FileWords.split
  <2>1. \A key : /\ <<key, "Server">> \notin FileWords.flag
                 /\ <<key, "Password">> \notin FileWords.flag
                 /\ <<key, "Gateway.Password">> \notin FileWords.flag
                 /\ <<key, "ReadPwStdin">> \notin FileWords.flag
    BY DEF FileWords
  <2>2. FileWords.on = {} /\ FileWords.off = {}
    BY DEF FileWords
  <2>3. FileWords.split = {<<"full address", "Port">>, <<"alternate full address", "Port">>}
    BY DEF FileWords
  <2> QED
    BY <2>1, <2>2, <2>3
<1> QED
  BY <1>1, <1>2, <1>3, <1>4 DEF Words

LEMMA FileSaysOf ==
  ASSUME NEW l
  PROVE  /\ "Server" \in DOMAIN FileSays(l)
              <=> l.key \in {"full address", "alternate full address"}
         /\ "Server" \in DOMAIN FileSays(l) => FileSays(l)["Server"] = l.val
         /\ "Password" \in DOMAIN FileSays(l) <=> l.key = "password 51"
         /\ "Password" \in DOMAIN FileSays(l) => FileSays(l)["Password"] = l.val
         /\ "Gateway.Password" \notin DOMAIN FileSays(l)
         /\ "ReadPwStdin" \notin DOMAIN FileSays(l)
<1> DEFINE says == Says(l, FileWords)
           drives == [o \in {x \in {"RedirectDrives"} : l.key = "drivestoredirect" /\ l.val # ""} |-> "1"]
           Few == {"Server", "Password", "Gateway.Password", "ReadPwStdin"}
<1>1. Few \subseteq Options
  BY DEF Options, Texts, Pointers, Booleans
<1>2. \A o \in Few : o \in DOMAIN says <=> <<l.key, o>> \in Words(FileWords)
  BY <1>1, FileWordsOf DEF Says
<1>3. \A o \in Few : o \in DOMAIN says /\ <<l.key, o>> \in FileWords.value => says[o] = l.val
  BY DEF Says
<1>4. DOMAIN drives \subseteq {"RedirectDrives"}
  OBVIOUS
<1>5. FileSays(l) = Overlay(drives, says)
  BY DEF FileSays
<1> HIDE DEF says, drives
<1>6. /\ DOMAIN Overlay(drives, says) = DOMAIN drives \cup DOMAIN says
      /\ \A o \in DOMAIN says \ DOMAIN drives : Overlay(drives, says)[o] = says[o]
  BY OverlayOf
<1>7. \A o \in Few : /\ o \in DOMAIN FileSays(l) <=> <<l.key, o>> \in Words(FileWords)
                     /\ o \in DOMAIN FileSays(l) /\ <<l.key, o>> \in FileWords.value
                          => FileSays(l)[o] = l.val
  BY <1>2, <1>3, <1>4, <1>5, <1>6
<1> QED
  BY <1>7, FileWordsOf

ReadAnyLine == ReadSetting \/ ReadPrompt \/ ReadScreenMode \/ ReadPerformance \/ SkipLine

\* Does the line say what the server or the password is?
Tells(o) == line.ok /\ ~Superseded /\ o \in DOMAIN FileSays(line)

LEMMA LineTells ==
  ASSUME TypeInv, ReadAnyLine,
         NEW o \in {"Server", "Password", "Gateway.Password", "ReadPwStdin"}
  PROVE  /\ pc = "file" /\ pc' = pc /\ in' = in /\ at' = at + 1 /\ at \in DOMAIN in.file
         /\ \/ Tells(o) /\ o \in DOMAIN cfg' /\ cfg'[o] = FileSays(line)[o]
            \/ /\ ~Tells(o)
               /\ o \in DOMAIN cfg' <=> o \in DOMAIN cfg
               /\ o \in DOMAIN cfg => cfg'[o] = cfg[o]
<1>1. ReadLine
  BY DEF ReadAnyLine, ReadSetting, ReadPrompt, ReadScreenMode, ReadPerformance, SkipLine
<1>2. pc = "file" /\ pc' = pc /\ in' = in /\ at' = at + 1 /\ at \in DOMAIN in.file
  BY <1>1, TypeReadLine DEF ReadLine
<1>3. CASE ReadSetting
  <2> DEFINE says == FileSays(line)
  <2>1. cfg' = Overlay(says, cfg) /\ line.ok /\ ~Superseded
    BY <1>3 DEF ReadSetting
  <2> HIDE DEF says
  <2>2. /\ DOMAIN Overlay(says, cfg) = DOMAIN says \cup DOMAIN cfg
        /\ \A q \in DOMAIN says : Overlay(says, cfg)[q] = says[q]
        /\ \A q \in DOMAIN cfg \ DOMAIN says : Overlay(says, cfg)[q] = cfg[q]
    BY OverlayOf
  <2>3. Tells(o) <=> o \in DOMAIN says
    BY <2>1 DEF Tells, says
  <2> QED
    BY <1>2, <2>1, <2>2, <2>3 DEF says
<1>4. CASE ReadPrompt
  <2> DEFINE one == Only("PromptForCreds", "1")
  <2>1. DOMAIN one = {"PromptForCreds"}
    BY OnlyOf
  <2>2. cfg' = Overlay(one, cfg)
    BY <1>4 DEF ReadPrompt
  <2> HIDE DEF one
  <2>3. /\ DOMAIN Overlay(one, cfg) = DOMAIN one \cup DOMAIN cfg
        /\ \A q \in DOMAIN cfg \ DOMAIN one : Overlay(one, cfg)[q] = cfg[q]
    BY OverlayOf
  <2>4. line.key = "prompt for credentials"
    BY <1>4 DEF ReadPrompt
  <2>5. ~Tells(o)
    BY <2>4, FileSaysOf DEF Tells
  <2> QED
    BY <1>2, <2>1, <2>2, <2>3, <2>5
<1>5. CASE ReadScreenMode
  <2>1. cfg' = cfg /\ line.key = "screen mode id"
    BY <1>5 DEF ReadScreenMode
  <2>2. ~Tells(o)
    BY <2>1, FileSaysOf DEF Tells
  <2> QED
    BY <1>2, <2>1, <2>2
<1>6. CASE ReadPerformance
  <2>1. cfg' = cfg
    BY <1>6 DEF ReadPerformance
  <2>2. line.key \notin {"full address", "alternate full address", "password 51"}
    <3>1. CASE line.key = "performanceflags"
      BY <3>1
    <3>2. CASE \E b \in Bits : <<line.key, b>> \in LineBit
      <4>1. \A q \in {"Server", "Password"} : <<line.key, q>> \notin Words(FileWords)
        <5>1. {"Server", "Password"} \subseteq Options
          BY DEF Options, Texts, Pointers
        <5>2. PICK b \in Bits : <<line.key, b>> \in LineBit
          BY <3>2
        <5> DEFINE p == <<line.key, b>>
        <5>3. p \in LineBit /\ p[1] = line.key
          BY <5>2
        <5> HIDE DEF p
        <5> QED
          BY <5>1, <5>3, LineBitAssumption
      <4> QED
        BY <4>1, FileWordsOf
    <3> QED
      BY <1>6, <3>1, <3>2 DEF ReadPerformance
  <2>3. ~Tells(o)
    BY <2>2, FileSaysOf DEF Tells
  <2> QED
    BY <1>2, <2>1, <2>3
<1>7. CASE SkipLine
  <2>1. cfg' = cfg
    BY <1>7 DEF SkipLine
  <2>2. ~Tells(o)
    <3>1. CASE ~line.ok \/ Superseded
      BY <3>1 DEF Tells
    <3>2. CASE line.key = "prompt for credentials"
      BY <3>2, FileSaysOf DEF Tells
    <3>3. CASE \A q \in Options : <<line.key, q>> \notin Words(FileWords)
      <4>1. {"Server", "Password"} \subseteq Options
        BY DEF Options, Texts, Pointers
      <4>2. line.key \notin {"full address", "alternate full address", "password 51"}
        BY <3>3, <4>1, FileWordsOf
      <4> QED
        BY <4>2, FileSaysOf DEF Tells
    <3> QED
      BY <1>7, <3>1, <3>2, <3>3 DEF SkipLine
  <2> QED
    BY <1>2, <2>1, <2>2
<1> QED
  BY <1>3, <1>4, <1>5, <1>6, <1>7 DEF ReadAnyLine

\* What is put off to the end of the file is neither.
LEMMA EndFileKeeps ==
  ASSUME EndFile, NEW o, o \notin {"FullScreen", "PerformanceFlags"}
  PROVE  /\ o \in DOMAIN cfg' <=> o \in DOMAIN cfg
         /\ o \in DOMAIN cfg => cfg'[o] = cfg[o]
<1> DEFINE new == Deferred
<1>1. DOMAIN new \subseteq {"FullScreen", "PerformanceFlags"}
  BY DEF Deferred
<1>2. cfg' = Overlay(new, cfg)
  BY DEF EndFile
<1> HIDE DEF new
<1>3. /\ DOMAIN Overlay(new, cfg) = DOMAIN new \cup DOMAIN cfg
      /\ \A q \in DOMAIN cfg \ DOMAIN new : Overlay(new, cfg)[q] = cfg[q]
  BY OverlayOf
<1> QED
  BY <1>1, <1>2, <1>3

-----------------------------------------------------------------------------
(* The server is the full address, or for want of one the alternate one.   *)

Full(b) == {k \in Addresses("full address") : k < b}

Alternate(b) ==
  {k \in Addresses("alternate full address") : in.file[k].val # "" /\ k < b}

ServerIs(c, v) == "Server" \in DOMAIN c /\ c["Server"] = v

\* The server of c is what the lines before b say.
AddressFrom(b, c) ==
  /\ \A k \in Full(b) :
       in.file[k].val # "" /\ (\A j \in Full(b) : j <= k) => ServerIs(c, in.file[k].val)
  /\ Full(b) = {} =>
       /\ \A k \in Alternate(b) :
            (\A j \in Alternate(b) : k <= j) => ServerIs(c, in.file[k].val)
       /\ Alternate(b) = {} => "Server" \notin DOMAIN c \/ c["Server"] = ""

AddressInv ==
  /\ pc = "start" => cfg = NewConfig /\ at = 1
  /\ pc = "file" => AddressFrom(at, cfg)
  /\ pc = "switches" /\ at = 1 /\ HasFile => AddressFrom(Len(in.file) + 1, cfg)

LEMMA ServerGiven ==
  ASSUME NEW c
  PROVE  Given(c, "Server") <=> "Server" \in DOMAIN c /\ c["Server"] # ""
BY DEF Given, Texts, Numbers, Booleans

\* The lines before the next one.
LEMMA FullNext ==
  ASSUME TypeInv, at \in DOMAIN in.file
  PROVE  /\ Full(at + 1) = Full(at) \cup {k \in {at} : line.key = "full address" /\ line.ok}
         /\ Alternate(at + 1) = Alternate(at) \cup
              {k \in {at} : line.key = "alternate full address" /\ line.ok /\ line.val # ""}
         /\ \A k \in Full(at + 1) \cup Alternate(at + 1) : k \in Nat /\ k <= at
         /\ \A k \in Full(at) \cup Alternate(at) : k \in Nat /\ k < at /\ k # at
<1>1. DOMAIN in.file \subseteq Nat /\ at \in Nat
  BY InputTypes DEF TypeInv, TypeOK
<1>2. \A k \in DOMAIN in.file : k < at + 1 <=> k < at \/ k = at
  BY <1>1
<1>3. \A k \in DOMAIN in.file : k \in Nat /\ (k < at + 1 => k <= at) /\ (k < at => k # at)
  BY <1>1
<1> QED
  BY <1>2, <1>3 DEF Full, Alternate, Addresses, line

LEMMA AddressByLine == TypeInv /\ AddressInv /\ ReadAnyLine => AddressInv'
<1> SUFFICES ASSUME TypeInv, AddressInv, ReadAnyLine PROVE AddressInv'
  OBVIOUS
<1>1. /\ pc = "file" /\ pc' = pc /\ in' = in /\ at' = at + 1 /\ at \in DOMAIN in.file
      /\ \/ Tells("Server") /\ "Server" \in DOMAIN cfg' /\ cfg'["Server"] = FileSays(line)["Server"]
         \/ /\ ~Tells("Server")
            /\ "Server" \in DOMAIN cfg' <=> "Server" \in DOMAIN cfg
            /\ "Server" \in DOMAIN cfg => cfg'["Server"] = cfg["Server"]
  BY LineTells
<1>2. AddressFrom(at, cfg)
  BY <1>1 DEF AddressInv
<1> DEFINE new == cfg'
           last == at
           next == at + 1
           isFull == line.key = "full address" /\ line.ok
           isAlternate == line.key = "alternate full address" /\ line.ok
<1>3. /\ Full(next) = Full(last) \cup {k \in {last} : isFull}
      /\ Alternate(next) = Alternate(last) \cup {k \in {last} : isAlternate /\ line.val # ""}
      /\ \A k \in Full(next) \cup Alternate(next) : k \in Nat /\ k <= last
      /\ \A k \in Full(last) \cup Alternate(last) : k \in Nat /\ k < last /\ k # last
  BY <1>1, FullNext
<1>4. /\ Tells("Server") <=> isFull \/ (isAlternate /\ ~Given(cfg, "Server"))
      /\ Tells("Server") => FileSays(line)["Server"] = line.val
  BY FileSaysOf DEF Tells, Superseded
<1>5. last \in Nat /\ line = in.file[last]
  BY DEF line, TypeInv, TypeOK
<1>6. \/ (isFull \/ (isAlternate /\ ~Given(cfg, "Server"))) /\ ServerIs(new, line.val)
      \/ /\ ~isFull /\ ~(isAlternate /\ ~Given(cfg, "Server"))
         /\ "Server" \in DOMAIN new <=> "Server" \in DOMAIN cfg
         /\ "Server" \in DOMAIN cfg => new["Server"] = cfg["Server"]
  BY <1>1, <1>4 DEF ServerIs
<1>7. ~(isFull /\ isAlternate)
  OBVIOUS
<1> HIDE DEF new, last, next, isFull, isAlternate
<1>8. AddressFrom(last, cfg)
  BY <1>2 DEF last
<1>9. AddressFrom(next, new)
  <2>1. CASE isFull
    <3>1. Full(next) # {} /\ last \in Full(next) /\ ServerIs(new, line.val)
      BY <2>1, <1>3, <1>6, <1>7
    <3>2. ASSUME NEW k \in Full(next), \A j \in Full(next) : j <= k
          PROVE  k = last
      <4>1. last <= k /\ k <= last /\ k \in Nat
        BY <3>1, <3>2, <1>3
      <4> QED
        BY <4>1, <1>5
    <3> QED
      BY <3>1, <3>2, <1>5 DEF AddressFrom
  <2>2. CASE isAlternate
    <3>1. Full(next) = Full(last)
      BY <2>2, <1>3, <1>7
    <3>2. CASE Given(cfg, "Server")
      <4>1. ServerIs(cfg, cfg["Server"]) /\ cfg["Server"] # "" /\ ServerIs(new, cfg["Server"])
        BY <3>2, <2>2, <1>6, <1>7, ServerGiven DEF ServerIs
      <4>2. ASSUME Full(next) = {}
            PROVE  Alternate(last) # {}
        BY <4>1, <4>2, <3>1, <1>8 DEF AddressFrom, ServerIs
      <4>3. ASSUME Full(next) = {}, NEW k \in Alternate(next), \A j \in Alternate(next) : k <= j
            PROVE  k \in Alternate(last) /\ \A j \in Alternate(last) : k <= j
        <5>1. PICK j \in Alternate(last) : TRUE
          BY <4>2, <4>3
        <5>2. j \in Alternate(next) /\ j < last /\ k <= j /\ k \in Nat /\ j \in Nat
          BY <4>3, <5>1, <1>3
        <5>3. k # last
          BY <5>2, <1>5
        <5> QED
          BY <4>3, <5>3, <1>3
      <4>4. ASSUME Full(next) = {}, NEW k \in Alternate(next), \A j \in Alternate(next) : k <= j
            PROVE  ServerIs(new, in.file[k].val)
        BY <4>1, <4>3, <4>4, <3>1, <1>8 DEF AddressFrom, ServerIs
      <4>5. ASSUME NEW k \in Full(next), in.file[k].val # "", \A j \in Full(next) : j <= k
            PROVE  ServerIs(new, in.file[k].val)
        BY <4>1, <4>5, <3>1, <1>8 DEF AddressFrom, ServerIs
      <4>6. ASSUME Full(next) = {}
            PROVE  Alternate(next) # {}
        BY <4>2, <4>6, <1>3
      <4> QED
        BY <4>4, <4>5, <4>6 DEF AddressFrom
    <3>3. CASE ~Given(cfg, "Server")
      <4>1. ServerIs(new, line.val)
        BY <3>3, <2>2, <1>6
      <4>2. ASSUME NEW v, v # ""
            PROVE  ~ServerIs(cfg, v)
        BY <3>3, <4>2, ServerGiven DEF ServerIs
      <4>3. ASSUME NEW k \in Full(next), in.file[k].val # "", \A j \in Full(next) : j <= k
            PROVE  ServerIs(new, in.file[k].val)
        BY <4>2, <4>3, <3>1, <1>8 DEF AddressFrom
      <4>4. ASSUME Full(next) = {}, NEW k \in Alternate(next), \A j \in Alternate(next) : k <= j
            PROVE  ServerIs(new, in.file[k].val)
        <5>1. CASE k = last
          BY <5>1, <4>1, <1>5
        <5>2. CASE k # last
          <6>1. k \in Alternate(last) /\ \A j \in Alternate(last) : k <= j
            BY <5>2, <4>4, <1>3
          <6>2. in.file[k].val # ""
            BY <6>1 DEF Alternate
          <6>3. ServerIs(cfg, in.file[k].val)
            BY <6>1, <4>4, <3>1, <1>8 DEF AddressFrom
          <6> QED
            BY <6>2, <6>3, <4>2
        <5> QED
          BY <5>1, <5>2
      <4>5. ASSUME Alternate(next) = {}
            PROVE  new["Server"] = ""
        BY <4>1, <4>5, <2>2, <1>3 DEF ServerIs
      <4> QED
        BY <4>3, <4>4, <4>5 DEF AddressFrom
    <3> QED
      BY <3>2, <3>3
  <2>3. CASE ~isFull /\ ~isAlternate
    <3>1. Full(next) = Full(last) /\ Alternate(next) = Alternate(last)
      BY <2>3, <1>3
    <3>2. /\ "Server" \in DOMAIN new <=> "Server" \in DOMAIN cfg
          /\ "Server" \in DOMAIN cfg => new["Server"] = cfg["Server"]
      BY <2>3, <1>6
    <3> QED
      BY <3>1, <3>2, <1>8 DEF AddressFrom, ServerIs
  <2> QED
    BY <2>1, <2>2, <2>3
<1> USE DEF new, last, next
<1>10. AddressFrom(at, cfg)'
  BY <1>1, <1>9 DEF AddressFrom, Full, Alternate, Addresses, ServerIs
<1> QED
  BY <1>1, <1>10 DEF AddressInv

\* The steps before the file and the switches are read, and the others.
LEMMA StepKinds ==
  ASSUME [Next]_vars
  PROVE  \/ FindFile \/ ReadAnyLine \/ EndFile
         \/ ReadSwitch /\ pc' \in {pc, "failed"}
         \/ pc' \notin {"start", "file", "switches"}
         \/ UNCHANGED vars
<1>1. ASSUME Read
      PROVE  \/ FindFile \/ ReadAnyLine \/ EndFile
             \/ ReadSwitch /\ pc' \in {pc, "failed"}
             \/ pc' \notin {"start", "file", "switches"}
  <2>1. EndSwitches \/ ReadPasswords \/ Validate => pc' \notin {"start", "file", "switches"}
    BY DEF EndSwitches, ReadPasswords, Validate
  <2>2. \/ SkipFile \/ SwitchSetting \/ SwitchConsole \/ SwitchGatewayConsole
        \/ SwitchOverride \/ SwitchEarly \/ SwitchRejected
        => ReadSwitch /\ pc' \in {pc, "failed"}
    BY DEF SkipFile, SwitchSetting, SwitchConsole, SwitchGatewayConsole, SwitchOverride,
           SwitchEarly, SwitchRejected
  <2> QED
    BY <1>1, <2>1, <2>2 DEF Read, ReadAnyLine
<1>2. Apply => pc' \notin {"start", "file", "switches"}
  BY DEF Apply, WriteSetting, WarnSetting, FailSetting, Due, EndSettings, WriteOverride,
         EndOverrides
<1> QED
  BY <1>1, <1>2 DEF Next, Stopped

LEMMA AddressStep == TypeInv /\ AddressInv /\ [Next]_vars => AddressInv'
<1> SUFFICES ASSUME TypeInv, AddressInv, [Next]_vars PROVE AddressInv'
  OBVIOUS
<1>1. CASE FindFile
  <2>1. pc = "start" /\ in' = in /\ at' = at /\ cfg' = cfg
    BY <1>1 DEF FindFile
  <2>2. at = 1 /\ cfg = NewConfig
    BY <2>1 DEF AddressInv
  <2>3. pc' = "switches" => ~HasFile
    BY <1>1 DEF FindFile
  <2>4. pc' # "start"
    BY <1>1 DEF FindFile
  <2>5. AddressFrom(1, cfg)
    <3>1. \A k \in DOMAIN in.file : ~(k < 1)
      BY InputTypes DEF TypeInv
    <3>2. Full(1) = {} /\ Alternate(1) = {}
      BY <3>1 DEF Full, Alternate, Addresses
    <3>3. "Server" \notin DOMAIN cfg
      BY <2>2 DEF NewConfig
    <3> QED
      BY <3>2, <3>3 DEF AddressFrom
  <2>6. AddressFrom(at, cfg)'
    BY <2>1, <2>2, <2>5 DEF AddressFrom, Full, Alternate, Addresses, ServerIs
  <2>7. HasFile' = HasFile
    BY <2>1 DEF HasFile, IsFile
  <2> QED
    BY <2>3, <2>4, <2>6, <2>7 DEF AddressInv
<1>2. CASE ReadAnyLine
  BY <1>2, AddressByLine
<1>3. CASE EndFile
  <2>1. pc = "file" /\ pc' = "switches" /\ in' = in /\ at > Len(in.file)
    BY <1>3 DEF EndFile
  <2>2. AddressFrom(at, cfg)
    BY <2>1 DEF AddressInv
  <2>3. /\ "Server" \in DOMAIN cfg' <=> "Server" \in DOMAIN cfg
        /\ "Server" \in DOMAIN cfg => cfg'["Server"] = cfg["Server"]
    BY <1>3, EndFileKeeps
  <2>4. \A k \in DOMAIN in.file : k < at <=> k < Len(in.file) + 1
    BY <2>1, InputTypes DEF TypeInv, TypeOK
  <2>5. Full(at) = Full(Len(in.file) + 1) /\ Alternate(at) = Alternate(Len(in.file) + 1)
    BY <2>4 DEF Full, Alternate, Addresses
  <2>6. AddressFrom(Len(in.file) + 1, cfg)
    BY <2>2, <2>5 DEF AddressFrom
  <2>7. AddressFrom(Len(in.file) + 1, cfg)'
    BY <2>1, <2>3, <2>6 DEF AddressFrom, Full, Alternate, Addresses, ServerIs
  <2> QED
    BY <2>1, <2>7 DEF AddressInv
<1>4. CASE ReadSwitch /\ pc' \in {pc, "failed"}
  <2>1. pc = "switches" /\ at' = at + 1 /\ at \in Nat \ {0}
    BY <1>4 DEF ReadSwitch, TypeInv, TypeOK
  <2>2. pc' \in {"switches", "failed"}
    BY <1>4, <2>1
  <2>3. at' # 1
    BY <2>1
  <2> QED
    BY <2>1, <2>2, <2>3 DEF AddressInv
<1>5. CASE pc' \notin {"start", "file", "switches"}
  BY <1>5 DEF AddressInv
<1>6. CASE UNCHANGED vars
  <2>1. in' = in /\ pc' = pc /\ at' = at /\ cfg' = cfg
    BY <1>6 DEF vars
  <2>2. AddressFrom(at, cfg) => AddressFrom(at, cfg)'
    BY <2>1 DEF AddressFrom, Full, Alternate, Addresses, ServerIs
  <2>3. AddressFrom(Len(in.file) + 1, cfg) => AddressFrom(Len(in.file) + 1, cfg)'
    BY <2>1 DEF AddressFrom, Full, Alternate, Addresses, ServerIs
  <2>4. HasFile' = HasFile
    BY <2>1 DEF HasFile, IsFile
  <2> QED
    BY <2>1, <2>2, <2>3, <2>4 DEF AddressInv
<1> QED
  BY <1>1, <1>2, <1>3, <1>4, <1>5, <1>6, StepKinds

\* Whatever the order of the address lines, the server is the last full address,
\* and the first alternate one for want of any (FullAddressWins).
THEOREM FullAddressWinsTheorem == Spec => []FullAddressWins
<1>1. Init => AddressInv
  BY DEF Init, AddressInv
<1>2. TypeInv /\ AddressInv => FullAddressWins
  <2> SUFFICES ASSUME TypeInv, AddressInv, pc = "switches", at = 1, HasFile
               PROVE  FullAddressWins
    BY DEF FullAddressWins
  <2>1. AddressFrom(Len(in.file) + 1, cfg)
    BY DEF AddressInv
  <2>2. \A k \in DOMAIN in.file : k < Len(in.file) + 1
    BY InputTypes DEF TypeInv
  <2>3. /\ Full(Len(in.file) + 1) = Addresses("full address")
        /\ Alternate(Len(in.file) + 1)
             = {k \in Addresses("alternate full address") : in.file[k].val # ""}
    BY <2>2 DEF Full, Alternate, Addresses
  <2> QED
    BY <2>1, <2>3 DEF FullAddressWins, AddressFrom, ServerIs
<1> QED
  BY <1>1, <1>2, TypeInit, TypeStep, AddressStep, PTL DEF Spec

-----------------------------------------------------------------------------
(* The performance flags.                                                  *)

LEMMA LineBitOf ==
  ASSUME NEW key, NEW b, <<key, b>> \in LineBit
  PROVE  /\ key \notin {"prompt for credentials", "screen mode id", "performanceflags"}
         /\ \A o \in Options : <<key, o>> \notin Words(FileWords)
         /\ \A d : <<key, d>> \in LineBit => d = b
<1> DEFINE p == <<key, b>>
<1>1. p[1] = key /\ p[2] = b /\ p \in LineBit
  OBVIOUS
<1>2. ASSUME NEW d, <<key, d>> \in LineBit
      PROVE  d = b
  <2> DEFINE q == <<key, d>>
  <2>1. q[1] = key /\ q[2] = d /\ q \in LineBit
    BY <1>2
  <2> HIDE DEF p, q
  <2> QED
    BY <1>1, <2>1, LineBitAssumption
<1> HIDE DEF p
<1> QED
  BY <1>1, <1>2, LineBitAssumption

LEMMA FlagsAreApart == \A o : <<"performanceflags", o>> \notin Words(FileWords)
<1>1. \A o : <<"performanceflags", o>> \notin FileWords.value
  BY DEF FileWords
<1>2. \A o : <<"performanceflags", o>> \notin FileWords.flag
  BY DEF FileWords
<1>3. \A o : <<"performanceflags", o>> \notin FileWords.on \cup FileWords.off
  BY DEF FileWords
<1> QED
  BY <1>1, <1>2, <1>3 DEF Words

\* A line that speaks of a bit decides it, and no other line does.
LEMMA LineFlags ==
  ASSUME TypeInv, ReadAnyLine
  PROVE  \A b \in Bits :
           /\ Mentions(at, b) => perfSeen' = TRUE /\ (b \in perf' <=> TurnsOn(at, b))
           /\ ~Mentions(at, b) => (perfSeen => perfSeen') /\ (b \in perf' <=> b \in perf)
<1>1. CASE ReadPerformance
  <2>1. line.ok /\ perfSeen' = TRUE
    BY <1>1 DEF ReadPerformance
  <2>2. CASE line.key = "performanceflags" /\ perf' = Number(line.val)
    BY <2>1, <2>2 DEF Mentions, TurnsOn, Number, line
  <2>3. ASSUME NEW d \in Bits, <<line.key, d>> \in LineBit,
               perf' = IF Flag(line.val) = "1" THEN perf \cup {d} ELSE perf \ {d}
        PROVE  \A b \in Bits :
                 /\ Mentions(at, b) => (b \in perf' <=> TurnsOn(at, b))
                 /\ ~Mentions(at, b) => (b \in perf' <=> b \in perf)
    <3>1. line.key # "performanceflags"
      BY <2>3, LineBitOf
    <3>2. \A b \in Bits : Mentions(at, b) <=> b = d
      BY <2>1, <2>3, <3>1, LineBitOf DEF Mentions, line
    <3>3. TurnsOn(at, d) <=> Flag(line.val) = "1"
      BY <3>1 DEF TurnsOn, line
    <3>4. \A b \in Bits : /\ b # d => (b \in perf' <=> b \in perf)
                          /\ d \in perf' <=> Flag(line.val) = "1"
      BY <2>3
    <3> QED
      BY <3>2, <3>3, <3>4
  <2> QED
    BY <1>1, <2>1, <2>2, <2>3 DEF ReadPerformance
<1>2. CASE ReadSetting \/ ReadPrompt \/ ReadScreenMode \/ SkipLine
  <2>1. perf' = perf /\ perfSeen' = perfSeen
    BY <1>2 DEF ReadSetting, ReadPrompt, ReadScreenMode, SkipLine, reading
  <2>2. ASSUME NEW b \in Bits, Mentions(at, b)
        PROVE  FALSE
    <3>1. line.ok /\ (line.key = "performanceflags" \/ <<line.key, b>> \in LineBit)
      BY <2>2 DEF Mentions, line
    <3>2. /\ line.key \notin {"prompt for credentials", "screen mode id"}
          /\ \A o \in Options : <<line.key, o>> \notin Words(FileWords)
      BY <3>1, LineBitOf, FlagsAreApart
    <3>3. line.key # "alternate full address"
      <4>1. "Server" \in Options
        BY DEF Options, Texts
      <4> QED
        BY <3>2, <4>1, FileWordsOf
    <3>4. CASE ReadSetting
      BY <3>2, <3>4 DEF ReadSetting
    <3>5. CASE ReadPrompt \/ ReadScreenMode
      BY <3>2, <3>5 DEF ReadPrompt, ReadScreenMode
    <3>6. CASE SkipLine
      BY <3>1, <3>2, <3>3, <3>6 DEF SkipLine, Superseded
    <3> QED
      BY <1>2, <3>4, <3>5, <3>6
  <2> QED
    BY <2>1, <2>2
<1> QED
  BY <1>1, <1>2 DEF ReadAnyLine

\* The flags of p are what the lines before b say.
FlagsFrom(b, p) ==
  \A k \in DOMAIN in.file : \A f \in Bits :
    /\ k < b /\ Mentions(k, f)
    /\ \A j \in DOMAIN in.file : k < j /\ j < b => ~Mentions(j, f)
    => (f \in p <=> TurnsOn(k, f))

\* They have been seen if a line before b speaks of them.
SeenFrom(b, seen) ==
  \A k \in DOMAIN in.file : \A f \in Bits : k < b /\ Mentions(k, f) => seen = TRUE

FlagInv ==
  /\ pc = "start" => at = 1
  /\ pc = "file" => FlagsFrom(at, perf) /\ SeenFrom(at, perfSeen)
  /\ pc = "switches" /\ at = 1 /\ HasFile =>
       FlagsFrom(Len(in.file) + 1, cfg["PerformanceFlags"])

LEMMA FlagsByLine == TypeInv /\ FlagInv /\ ReadAnyLine => FlagInv'
<1> SUFFICES ASSUME TypeInv, FlagInv, ReadAnyLine PROVE FlagInv'
  OBVIOUS
<1>1. pc = "file" /\ pc' = pc /\ in' = in /\ at' = at + 1 /\ at \in DOMAIN in.file
  BY LineTells
<1>2. FlagsFrom(at, perf) /\ SeenFrom(at, perfSeen)
  BY <1>1 DEF FlagInv
<1> DEFINE last == at
           new == perf'
           old == perf
           seen == perfSeen'
<1>3. \A b \in Bits :
        /\ Mentions(last, b) => seen = TRUE /\ (b \in new <=> TurnsOn(last, b))
        /\ ~Mentions(last, b) => (perfSeen => seen) /\ (b \in new <=> b \in old)
  BY LineFlags
<1>4. /\ DOMAIN in.file \subseteq Nat /\ last \in DOMAIN in.file
      /\ FlagsFrom(last, old) /\ SeenFrom(last, perfSeen)
  BY <1>1, <1>2, InputTypes DEF TypeInv
<1>5. perfSeen \in BOOLEAN /\ seen \in BOOLEAN
  BY <1>1, TypeReadLine, TypeStep DEF ReadAnyLine, TypeInv, TypeOK, Next, Read
<1> HIDE DEF last, new, old, seen
<1>6. FlagsFrom(last + 1, new)
  <2> SUFFICES ASSUME NEW k \in DOMAIN in.file, NEW f \in Bits, k < last + 1, Mentions(k, f),
                      \A j \in DOMAIN in.file : k < j /\ j < last + 1 => ~Mentions(j, f)
               PROVE  f \in new <=> TurnsOn(k, f)
    BY DEF FlagsFrom
  <2>1. CASE k = last
    BY <2>1, <1>3
  <2>2. CASE k # last
    <3>1. k < last /\ last < last + 1
      BY <2>2, <1>4
    <3>2. ~Mentions(last, f)
      BY <3>1, <1>4
    <3>3. \A j \in DOMAIN in.file : j < last => j < last + 1
      BY <1>4
    <3>4. f \in old <=> TurnsOn(k, f)
      BY <3>1, <3>3, <1>4 DEF FlagsFrom
    <3> QED
      BY <3>2, <3>4, <1>3
  <2> QED
    BY <2>1, <2>2
<1>7. SeenFrom(last + 1, seen)
  <2> SUFFICES ASSUME NEW k \in DOMAIN in.file, NEW f \in Bits, k < last + 1, Mentions(k, f)
               PROVE  seen = TRUE
    BY DEF SeenFrom
  <2>1. CASE k = last
    BY <2>1, <1>3
  <2>2. CASE k # last
    <3>1. k < last
      BY <2>2, <1>4
    <3>2. perfSeen = TRUE
      BY <3>1, <1>4 DEF SeenFrom
    <3> QED
      BY <3>2, <1>3, <1>5
  <2> QED
    BY <2>1, <2>2
<1>8. FlagsFrom(at, perf)'
  BY <1>1, <1>6 DEF FlagsFrom, Mentions, TurnsOn, last, new
<1>9. SeenFrom(at, perfSeen)'
  BY <1>1, <1>7 DEF SeenFrom, Mentions, last, seen
<1> QED
  BY <1>1, <1>8, <1>9 DEF FlagInv

LEMMA FlagsAtEnd == TypeInv /\ FlagInv /\ EndFile => FlagInv'
<1> SUFFICES ASSUME TypeInv, FlagInv, EndFile PROVE FlagInv'
  OBVIOUS
<1>1. pc = "file" /\ pc' = "switches" /\ in' = in /\ at > Len(in.file)
      /\ cfg' = Overlay(Deferred, cfg)
  BY DEF EndFile
<1>2. FlagsFrom(at, perf) /\ SeenFrom(at, perfSeen)
  BY <1>1 DEF FlagInv
<1>3. \A k \in DOMAIN in.file : k < at /\ k < Len(in.file) + 1
  BY <1>1, InputTypes DEF TypeInv, TypeOK
<1>4. perfSeen = TRUE => cfg'["PerformanceFlags"] = perf
  <2> DEFINE new == Deferred
  <2>1. perfSeen = TRUE => "PerformanceFlags" \in DOMAIN new /\ new["PerformanceFlags"] = perf
    BY DEF Deferred
  <2> HIDE DEF new
  <2>2. \A o \in DOMAIN new : Overlay(new, cfg)[o] = new[o]
    BY OverlayOf
  <2> QED
    BY <1>1, <2>1, <2>2 DEF new
<1> DEFINE n == Len(in.file) + 1
           flags == cfg'["PerformanceFlags"]
<1>5. \A k \in DOMAIN in.file : k < n
  BY <1>3
<1>6. perfSeen = TRUE => flags = perf
  BY <1>4
<1> HIDE DEF n, flags
<1>7. FlagsFrom(n, flags)
  <2> SUFFICES ASSUME NEW k \in DOMAIN in.file, NEW f \in Bits, Mentions(k, f),
                      \A j \in DOMAIN in.file : k < j /\ j < n => ~Mentions(j, f)
               PROVE  f \in flags <=> TurnsOn(k, f)
    BY DEF FlagsFrom
  <2>1. flags = perf
    BY <1>2, <1>3, <1>6 DEF SeenFrom
  <2>2. f \in perf <=> TurnsOn(k, f)
    BY <1>2, <1>3, <1>5 DEF FlagsFrom
  <2> QED
    BY <2>1, <2>2
<1>8. FlagsFrom(Len(in.file) + 1, cfg["PerformanceFlags"])'
  BY <1>1, <1>7 DEF FlagsFrom, Mentions, TurnsOn, n, flags
<1> QED
  BY <1>1, <1>8 DEF FlagInv

LEMMA FlagsStep == TypeInv /\ FlagInv /\ [Next]_vars => FlagInv'
<1> SUFFICES ASSUME TypeInv, FlagInv, [Next]_vars PROVE FlagInv'
  OBVIOUS
<1>1. CASE FindFile
  <2>1. /\ pc = "start" /\ in' = in /\ at' = at
        /\ pc' # "start" /\ (pc' = "switches" => ~HasFile)
    BY <1>1 DEF FindFile
  <2>2. at' = 1
    BY <2>1 DEF FlagInv
  <2>3. \A k \in DOMAIN in.file : ~(k < 1)
    BY InputTypes DEF TypeInv
  <2>4. (FlagsFrom(at, perf) /\ SeenFrom(at, perfSeen))'
    BY <2>1, <2>2, <2>3 DEF FlagsFrom, SeenFrom
  <2>5. HasFile' = HasFile
    BY <2>1 DEF HasFile, IsFile
  <2> QED
    BY <2>1, <2>4, <2>5 DEF FlagInv
<1>2. CASE ReadAnyLine
  BY <1>2, FlagsByLine
<1>3. CASE EndFile
  BY <1>3, FlagsAtEnd
<1>4. CASE ReadSwitch /\ pc' \in {pc, "failed"}
  <2>1. pc = "switches" /\ at' = at + 1 /\ at \in Nat \ {0}
    BY <1>4 DEF ReadSwitch, TypeInv, TypeOK
  <2>2. pc' \in {"switches", "failed"}
    BY <1>4, <2>1
  <2>3. at' # 1
    BY <2>1
  <2> QED
    BY <2>1, <2>2, <2>3 DEF FlagInv
<1>5. CASE pc' \notin {"start", "file", "switches"}
  BY <1>5 DEF FlagInv
<1>6. CASE UNCHANGED vars
  <2>1. in' = in /\ pc' = pc /\ at' = at /\ cfg' = cfg /\ perf' = perf /\ perfSeen' = perfSeen
    BY <1>6 DEF vars, reading
  <2>2. FlagsFrom(at, perf) => FlagsFrom(at, perf)'
    BY <2>1 DEF FlagsFrom, Mentions, TurnsOn
  <2>3. SeenFrom(at, perfSeen) => SeenFrom(at, perfSeen)'
    BY <2>1 DEF SeenFrom, Mentions
  <2>4. FlagsFrom(Len(in.file) + 1, cfg["PerformanceFlags"])
          => FlagsFrom(Len(in.file) + 1, cfg["PerformanceFlags"])'
    BY <2>1 DEF FlagsFrom, Mentions, TurnsOn
  <2>5. HasFile' = HasFile
    BY <2>1 DEF HasFile, IsFile
  <2> QED
    BY <2>1, <2>2, <2>3, <2>4, <2>5 DEF FlagInv
<1> QED
  BY <1>1, <1>2, <1>3, <1>4, <1>5, <1>6, StepKinds

\* Each flag is what the last line that speaks of it says, as a number or spelled
\* out, however many lines there are (FlagsAsSpelled).
THEOREM FlagsAsSpelledTheorem == Spec => []FlagsAsSpelled
<1>1. Init => FlagInv
  BY DEF Init, FlagInv
<1>2. TypeInv /\ FlagInv => FlagsAsSpelled
  <2> SUFFICES ASSUME TypeInv, FlagInv, pc = "switches", at = 1, HasFile,
                      NEW k \in DOMAIN in.file, NEW b \in Bits, Mentions(k, b),
                      \A j \in DOMAIN in.file : k < j => ~Mentions(j, b)
               PROVE  b \in cfg["PerformanceFlags"] <=> TurnsOn(k, b)
    BY DEF FlagsAsSpelled
  <2>1. FlagsFrom(Len(in.file) + 1, cfg["PerformanceFlags"])
    BY DEF FlagInv
  <2>2. k < Len(in.file) + 1
    BY InputTypes DEF TypeInv
  <2>3. b \in cfg["PerformanceFlags"] <=> TurnsOn(k, b)
    BY <2>1, <2>2 DEF FlagsFrom
  <2> QED
    BY <2>3
<1> QED
  BY <1>1, <1>2, TypeInit, TypeStep, FlagsStep, PTL DEF Spec

-----------------------------------------------------------------------------
(* Where the passwords come from.                                          *)

\* An option is as it was.
Same(c, d, o) ==
  /\ o \in DOMAIN d <=> o \in DOMAIN c
  /\ o \in DOMAIN c => d[o] = c[o]

IsLast(k, S) == k \in S /\ \A j \in S : j <= k

\* The lines before b with a password, and the arguments before b under a key.
Stored(b) ==
  {k \in DOMAIN in.file : in.file[k].key = "password 51" /\ in.file[k].ok /\ k < b}

Typed(key, b) == {k \in DOMAIN in.args : in.args[k].key = key /\ k < b}

Asked(b) == \E k \in Typed("p", b) : FromConsole(in.args[k])

\* The password of c is the last of the lines before b.
StoredFrom(b, c) ==
  /\ Stored(b) = {} => "Password" \notin DOMAIN c
  /\ Stored(b) # {} =>
       /\ "Password" \in DOMAIN c
       /\ \E k \in DOMAIN in.file : IsLast(k, Stored(b)) /\ c["Password"] = in.file[k].val

Untyped(c) == "Gateway.Password" \notin DOMAIN c /\ "ReadPwStdin" \notin DOMAIN c

FileSource(c) ==
  /\ HasFile => StoredFrom(Len(in.file) + 1, c)
  /\ ~HasFile => "Password" \notin DOMAIN c

\* The passwords of c are what the arguments before b say, and else the file.
PasswordFrom(b, c) ==
  /\ Typed("p", b) = {} => FileSource(c)
  /\ ~Asked(b) /\ Typed("p", b) # {} =>
       /\ "Password" \in DOMAIN c
       /\ \E k \in DOMAIN in.args : IsLast(k, Typed("p", b)) /\ c["Password"] = in.args[k].val

GatewayFrom(b, c) ==
  /\ Typed("gp", b) = {} => "Gateway.Password" \notin DOMAIN c
  /\ Typed("gp", b) # {} =>
       /\ "Gateway.Password" \in DOMAIN c
       /\ \E k \in DOMAIN in.args :
            /\ IsLast(k, Typed("gp", b))
            /\ FromConsole(in.args[k]) => c["Gateway.Password"] \in in.console
            /\ ~FromConsole(in.args[k]) => c["Gateway.Password"] = in.args[k].val

TypedFrom(b, c) ==
  /\ Given(c, "ReadPwStdin") <=> Asked(b)
  /\ PasswordFrom(b, c)
  /\ GatewayFrom(b, c)

\* In the end: see PasswordOrigin.
LastOf(S) == CHOOSE k \in S : \A j \in S : j <= k

PasswordOf ==
  LET typed == {k \in DOMAIN in.args : in.args[k].key = "p"}
      stored == IF HasFile THEN {k \in DOMAIN in.file : in.file[k].key = "password 51" /\ in.file[k].ok}
                ELSE {}
  IN IF \E k \in typed : FromConsole(in.args[k]) THEN in.console
     ELSE IF typed # {} THEN {in.args[LastOf(typed)].val}
     ELSE IF stored # {} THEN {in.file[LastOf(stored)].val}
     ELSE in.env

GatewayOf ==
  LET gateway == {k \in DOMAIN in.args : in.args[k].key = "gp"}
  IN IF gateway = {} THEN in.gatewayEnv
     ELSE IF FromConsole(in.args[LastOf(gateway)]) THEN in.console
     ELSE {in.args[LastOf(gateway)].val}

Came(c, o, S) == (S = {} <=> o \notin DOMAIN c) /\ (S # {} => c[o] \in S)

Origin(c) == Came(c, "Password", PasswordOf) /\ Came(c, "Gateway.Password", GatewayOf)

PasswordInv ==
  /\ pc = "start" => cfg = NewConfig /\ at = 1
  /\ pc = "file" => HasFile /\ StoredFrom(at, cfg) /\ Untyped(cfg)
  /\ pc = "switches" => TypedFrom(at, cfg)
  /\ pc = "passwords" => TypedFrom(Len(in.args) + 1, cfg)
  /\ pc \in {"validate", "apply", "override", "done"} => Origin(cfg)

LEMMA PasswordsGiven ==
  ASSUME NEW c
  PROVE  /\ Given(c, "Password") <=> "Password" \in DOMAIN c
         /\ Given(c, "Gateway.Password") <=> "Gateway.Password" \in DOMAIN c
         /\ Given(c, "ReadPwStdin") <=> "ReadPwStdin" \in DOMAIN c /\ c["ReadPwStdin"] # "0"
BY DEF Given, Texts, Numbers, Booleans

LEMMA LastOfIs ==
  ASSUME NEW S, S \subseteq Nat, NEW k, IsLast(k, S)
  PROVE  LastOf(S) = k
<1>1. \A m \in S : (\A j \in S : j <= m) => m = k
  <2> SUFFICES ASSUME NEW m \in S, \A j \in S : j <= m PROVE m = k
    OBVIOUS
  <2>1. m \in Nat /\ k \in Nat /\ k <= m /\ m <= k
    BY DEF IsLast
  <2> QED
    BY <2>1
<1>2. k \in S /\ \A j \in S : j <= k
  BY DEF IsLast
<1> QED
  BY <1>1, <1>2 DEF LastOf

\* One more number than those before it.
LEMMA LastAdded ==
  ASSUME NEW b \in Nat, NEW S, \A j \in S : j \in Nat /\ j < b
  PROVE  IsLast(b, S \cup {b})
BY DEF IsLast

-----------------------------------------------------------------------------
(* The file.                                                               *)

LEMMA StoredByLine == TypeInv /\ PasswordInv /\ ReadAnyLine => PasswordInv'
<1> SUFFICES ASSUME TypeInv, PasswordInv, ReadAnyLine PROVE PasswordInv'
  OBVIOUS
<1>1. pc = "file" /\ pc' = pc /\ in' = in /\ at' = at + 1 /\ at \in DOMAIN in.file
  BY LineTells
<1>2. HasFile /\ StoredFrom(at, cfg) /\ Untyped(cfg)
  BY <1>1 DEF PasswordInv
<1>3. Untyped(cfg')
  <2>1. ~Tells("Gateway.Password") /\ ~Tells("ReadPwStdin")
    BY FileSaysOf DEF Tells
  <2>2. "Gateway.Password" \in DOMAIN cfg' <=> "Gateway.Password" \in DOMAIN cfg
    BY <2>1, LineTells
  <2>3. "ReadPwStdin" \in DOMAIN cfg' <=> "ReadPwStdin" \in DOMAIN cfg
    BY <2>1, LineTells
  <2> QED
    BY <1>2, <2>2, <2>3 DEF Untyped
<1> DEFINE b == at  c == cfg  d == cfg'  stores == line.key = "password 51" /\ line.ok
<1>4. Stored(b + 1) = Stored(b) \cup {k \in {b} : stores}
  <2>1. DOMAIN in.file \subseteq Nat /\ b \in DOMAIN in.file
    BY <1>1, InputTypes DEF TypeInv
  <2>2. \A k \in DOMAIN in.file : k < b + 1 <=> k < b \/ k = b
    BY <2>1
  <2> QED
    BY <2>1, <2>2 DEF Stored, line
<1>5. b \in DOMAIN in.file /\ b \in Nat /\ \A j \in Stored(b) : j \in Nat /\ j < b
  <2>1. DOMAIN in.file \subseteq Nat /\ b \in DOMAIN in.file
    BY <1>1, InputTypes DEF TypeInv
  <2>2. \A j \in Stored(b) : j \in DOMAIN in.file /\ j < b
    BY DEF Stored
  <2> QED
    BY <2>1, <2>2
<1>6. StoredFrom(b, c)
  BY <1>2
<1>7. \/ stores /\ "Password" \in DOMAIN d /\ d["Password"] = in.file[b].val
      \/ ~stores /\ Same(c, d, "Password")
  <2>1. Tells("Password") <=> stores
    BY FileSaysOf DEF Tells, Superseded
  <2>2. \/ Tells("Password") /\ "Password" \in DOMAIN d /\ d["Password"] = FileSays(line)["Password"]
        \/ ~Tells("Password") /\ Same(c, d, "Password")
    BY LineTells DEF Same
  <2>3. Tells("Password") => FileSays(line)["Password"] = in.file[b].val
    BY FileSaysOf DEF Tells, line
  <2> QED
    BY <2>1, <2>2, <2>3
<1> HIDE DEF b, c, d, stores
<1>8. StoredFrom(b + 1, d)
  <2>1. CASE stores
    <3>1. Stored(b + 1) = Stored(b) \cup {b}
      BY <2>1, <1>4
    <3>2. IsLast(b, Stored(b + 1))
      BY <3>1, <1>5, LastAdded
    <3> QED
      BY <2>1, <3>1, <3>2, <1>5, <1>7 DEF StoredFrom
  <2>2. CASE ~stores
    <3>1. Stored(b + 1) = Stored(b)
      BY <2>2, <1>4
    <3> QED
      BY <2>2, <3>1, <1>6, <1>7 DEF StoredFrom, Same
  <2> QED
    BY <2>1, <2>2
<1>9. StoredFrom(at, cfg)'
  BY <1>1, <1>8 DEF StoredFrom, Stored, b, d
<1>10. HasFile' /\ Untyped(cfg)'
  BY <1>1, <1>2, <1>3 DEF HasFile, IsFile, Untyped
<1> QED
  BY <1>1, <1>9, <1>10 DEF PasswordInv

\* Before the first switch.
LEMMA FirstSwitch ==
  ASSUME TypeInv, NEW c, FileSource(c), Untyped(c)
  PROVE  TypedFrom(1, c)
<1>1. \A k \in DOMAIN in.args : ~(k < 1)
  BY InputTypes DEF TypeInv
<1>2. Typed("p", 1) = {} /\ Typed("gp", 1) = {}
  BY <1>1 DEF Typed
<1>3. ~Asked(1)
  BY <1>2 DEF Asked
<1> QED
  BY <1>2, <1>3, PasswordsGiven DEF TypedFrom, PasswordFrom, GatewayFrom, Untyped

LEMMA StoredAtEnd == TypeInv /\ PasswordInv /\ EndFile => PasswordInv'
<1> SUFFICES ASSUME TypeInv, PasswordInv, EndFile PROVE PasswordInv'
  OBVIOUS
<1>1. pc = "file" /\ pc' = "switches" /\ in' = in /\ at > Len(in.file) /\ at' = 1
  BY DEF EndFile
<1>2. HasFile /\ StoredFrom(at, cfg) /\ Untyped(cfg)
  BY <1>1 DEF PasswordInv
<1>3. Same(cfg, cfg', "Password") /\ Same(cfg, cfg', "Gateway.Password") /\ Same(cfg, cfg', "ReadPwStdin")
  BY EndFileKeeps DEF Same
<1>4. \A k \in DOMAIN in.file : k < at <=> k < Len(in.file) + 1
  BY <1>1, InputTypes DEF TypeInv, TypeOK
<1>5. Stored(at) = Stored(Len(in.file) + 1)
  BY <1>4 DEF Stored
<1> DEFINE d == cfg'
<1>6. FileSource(d) /\ Untyped(d)
  <2>1. StoredFrom(Len(in.file) + 1, cfg)
    BY <1>2, <1>5 DEF StoredFrom
  <2>2. Same(cfg, d, "Password") /\ Same(cfg, d, "Gateway.Password") /\ Same(cfg, d, "ReadPwStdin")
    BY <1>3
  <2> HIDE DEF d
  <2>3. StoredFrom(Len(in.file) + 1, d)
    BY <2>1, <2>2 DEF StoredFrom, Same
  <2> QED
    BY <1>2, <2>2, <2>3 DEF FileSource, Untyped, Same
<1> HIDE DEF d
<1>7. TypedFrom(1, d)
  BY <1>6, FirstSwitch
<1>8. TypedFrom(at, cfg)'
  BY <1>1, <1>7 DEF TypedFrom, PasswordFrom, GatewayFrom, FileSource, StoredFrom, Stored, Typed,
                    Asked, HasFile, IsFile, d
<1> QED
  BY <1>1, <1>8 DEF PasswordInv

-----------------------------------------------------------------------------
(* The switches.                                                           *)

LEMMA PasswordSwitches ==
  /\ \A key : <<key, "Password">> \in Words(SwitchWords) <=> key = "p"
  /\ \A key : <<key, "Gateway.Password">> \in Words(SwitchWords) <=> key = "gp"
  /\ <<"p", "Password">> \in SwitchWords.value
  /\ <<"gp", "Gateway.Password">> \in SwitchWords.value
  /\ \A key : \A o \in {"Password", "Gateway.Password"} : <<key, o>> \notin SwitchWords.split
<1>1. \A key : <<key, "Password">> \in SwitchWords.value => key = "p"
  BY DEF SwitchWords
<1>2. \A key : <<key, "Gateway.Password">> \in SwitchWords.value => key = "gp"
  BY DEF SwitchWords
<1>3. <<"p", "Password">> \in SwitchWords.value
  BY DEF SwitchWords
<1>4. <<"gp", "Gateway.Password">> \in SwitchWords.value
  BY DEF SwitchWords
<1>5. \A key : /\ <<key, "Password">> \notin SwitchWords.flag
               /\ <<key, "Gateway.Password">> \notin SwitchWords.flag
  BY DEF SwitchWords
<1>6. \A key : /\ <<key, "Password">> \notin SwitchWords.on
               /\ <<key, "Gateway.Password">> \notin SwitchWords.on
  BY DEF SwitchWords
<1>7. \A key : /\ <<key, "Password">> \notin SwitchWords.off
               /\ <<key, "Gateway.Password">> \notin SwitchWords.off
  BY DEF SwitchWords
<1>8. \A key : /\ <<key, "Password">> \notin SwitchWords.split
               /\ <<key, "Gateway.Password">> \notin SwitchWords.split
  BY DEF SwitchWords
<1> QED
  BY <1>1, <1>2, <1>3, <1>4, <1>5, <1>6, <1>7, <1>8 DEF Words

LEMMA SwitchSaysPasswords ==
  ASSUME NEW l, ~FromConsole(l)
  PROVE  /\ "Password" \in DOMAIN SwitchSays(l) <=> l.key = "p"
         /\ "Gateway.Password" \in DOMAIN SwitchSays(l) <=> l.key = "gp"
         /\ l.key = "p" => SwitchSays(l)["Password"] = l.val
         /\ l.key = "gp" => SwitchSays(l)["Gateway.Password"] = l.val
<1>1. SwitchSays(l) = Says(l, SwitchWords)
  BY DEF SwitchSays
<1>2. {"Password", "Gateway.Password"} \subseteq Options
  BY DEF Options, Pointers
<1>3. \A o \in {"Password", "Gateway.Password"} :
        /\ o \in DOMAIN Says(l, SwitchWords) <=> <<l.key, o>> \in Words(SwitchWords)
        /\ o \in DOMAIN Says(l, SwitchWords) /\ <<l.key, o>> \in SwitchWords.value
             => Says(l, SwitchWords)[o] = l.val
  BY <1>2, PasswordSwitches DEF Says
<1> QED
  BY <1>1, <1>3, PasswordSwitches

\* Setting one option.
LEMMA OnlySame ==
  ASSUME NEW c, NEW o, NEW v
  PROVE  /\ o \in DOMAIN Overlay(Only(o, v), c) /\ Overlay(Only(o, v), c)[o] = v
         /\ \A q : q # o => Same(c, Overlay(Only(o, v), c), q)
<1> DEFINE one == Only(o, v)
<1>1. DOMAIN one = {o} /\ one[o] = v
  BY OnlyOf
<1> HIDE DEF one
<1> DEFINE new == Overlay(one, c)
<1>2. /\ DOMAIN new = DOMAIN one \cup DOMAIN c
      /\ \A q \in DOMAIN one : new[q] = one[q]
      /\ \A q \in DOMAIN c \ DOMAIN one : new[q] = c[q]
  BY OverlayOf
<1> HIDE DEF new
<1>3. /\ o \in DOMAIN new /\ new[o] = v
      /\ \A q : q # o => Same(c, new, q)
  BY <1>1, <1>2 DEF Same
<1> QED
  BY <1>3 DEF new, one

\* A switch that is neither, one that asks on the console, and one that says it.
Told(c, d, o, others) ==
  o \in DOMAIN d /\ \A q \in others : Same(c, d, q)

SwitchTold(l, c, d) ==
  \/ /\ l.key \notin {"p", "gp"}
     /\ Same(c, d, "Password") /\ Same(c, d, "Gateway.Password") /\ Same(c, d, "ReadPwStdin")
  \/ /\ l.key = "p" /\ FromConsole(l)
     /\ Told(c, d, "ReadPwStdin", {"Password", "Gateway.Password"}) /\ d["ReadPwStdin"] = "1"
  \/ /\ l.key = "gp" /\ FromConsole(l)
     /\ Told(c, d, "Gateway.Password", {"Password", "ReadPwStdin"})
     /\ d["Gateway.Password"] \in in.console
  \/ /\ l.key = "p" /\ ~FromConsole(l)
     /\ Told(c, d, "Password", {"Gateway.Password", "ReadPwStdin"}) /\ d["Password"] = l.val
  \/ /\ l.key = "gp" /\ ~FromConsole(l)
     /\ Told(c, d, "Gateway.Password", {"Password", "ReadPwStdin"})
     /\ d["Gateway.Password"] = l.val

Switches ==
  SkipFile \/ SwitchSetting \/ SwitchConsole \/ SwitchGatewayConsole \/ SwitchOverride \/ SwitchEarly

LEMMA SwitchTells ==
  ASSUME TypeInv, Switches
  PROVE  /\ pc = "switches" /\ pc' = pc /\ in' = in /\ at' = at + 1 /\ at \in DOMAIN in.args
         /\ SwitchTold(switch, cfg, cfg')
<1>1. ReadSwitch /\ pc' = pc
  BY DEF Switches, SkipFile, SwitchSetting, SwitchConsole, SwitchGatewayConsole,
         SwitchOverride, SwitchEarly
<1>2. pc = "switches" /\ pc' = pc /\ in' = in /\ at' = at + 1 /\ at \in DOMAIN in.args
  BY <1>1, TypeReadSwitch DEF ReadSwitch
<1>3. CASE SkipFile \/ SwitchOverride \/ SwitchEarly
  <2>1. cfg' = cfg /\ switch.key \notin {"p", "gp"}
    BY <1>3 DEF SkipFile, SwitchOverride, SwitchEarly, IsFile, switch
  <2> QED
    BY <1>2, <2>1 DEF SwitchTold, Same
<1>4. CASE SwitchSetting
  <2> DEFINE says == SwitchSays(switch)
             d == cfg'
  <2>1. d = Overlay(says, cfg) /\ ~FromConsole(switch)
    BY <1>4 DEF SwitchSetting
  <2>2. /\ "Password" \in DOMAIN says <=> switch.key = "p"
        /\ "Gateway.Password" \in DOMAIN says <=> switch.key = "gp"
        /\ switch.key = "p" => says["Password"] = switch.val
        /\ switch.key = "gp" => says["Gateway.Password"] = switch.val
        /\ "ReadPwStdin" \notin DOMAIN says
    BY <2>1, SwitchSaysPasswords, SwitchWordsOf
  <2> HIDE DEF says, d
  <2>3. /\ DOMAIN d = DOMAIN says \cup DOMAIN cfg
        /\ \A q \in DOMAIN says : d[q] = says[q]
        /\ \A q \in DOMAIN cfg \ DOMAIN says : d[q] = cfg[q]
    <3>1. /\ DOMAIN Overlay(says, cfg) = DOMAIN says \cup DOMAIN cfg
          /\ \A q \in DOMAIN says : Overlay(says, cfg)[q] = says[q]
          /\ \A q \in DOMAIN cfg \ DOMAIN says : Overlay(says, cfg)[q] = cfg[q]
      BY OverlayOf
    <3> QED
      BY <2>1, <3>1
  <2>4. SwitchTold(switch, cfg, d)
    <3>1. Same(cfg, d, "ReadPwStdin")
      BY <2>2, <2>3 DEF Same
    <3>2. CASE switch.key = "p"
      <4>1. Same(cfg, d, "Gateway.Password")
        BY <3>2, <2>2, <2>3 DEF Same
      <4>2. "Password" \in DOMAIN d /\ d["Password"] = switch.val
        BY <3>2, <2>2, <2>3
      <4> QED
        BY <3>1, <3>2, <4>1, <4>2, <2>1 DEF SwitchTold, Told
    <3>3. CASE switch.key = "gp"
      <4>1. Same(cfg, d, "Password")
        BY <3>3, <2>2, <2>3 DEF Same
      <4>2. "Gateway.Password" \in DOMAIN d /\ d["Gateway.Password"] = switch.val
        BY <3>3, <2>2, <2>3
      <4> QED
        BY <3>1, <3>3, <4>1, <4>2, <2>1 DEF SwitchTold, Told
    <3>4. CASE switch.key \notin {"p", "gp"}
      <4>1. Same(cfg, d, "Password") /\ Same(cfg, d, "Gateway.Password")
        BY <3>4, <2>2, <2>3 DEF Same
      <4> QED
        BY <3>1, <3>4, <4>1 DEF SwitchTold
    <3> QED
      BY <3>2, <3>3, <3>4
  <2> QED
    BY <1>2, <2>4 DEF d
<1>5. CASE SwitchConsole
  <2>1. switch.key = "p" /\ FromConsole(switch) /\ cfg' = Overlay(Only("ReadPwStdin", "1"), cfg)
    BY <1>5 DEF SwitchConsole
  <2> DEFINE d == cfg'
  <2>2. /\ "ReadPwStdin" \in DOMAIN d /\ d["ReadPwStdin"] = "1"
        /\ \A q : q # "ReadPwStdin" => Same(cfg, d, q)
    BY <2>1, OnlySame
  <2> HIDE DEF d
  <2>3. Told(cfg, d, "ReadPwStdin", {"Password", "Gateway.Password"})
    BY <2>2 DEF Told
  <2>4. SwitchTold(switch, cfg, d)
    BY <2>1, <2>2, <2>3 DEF SwitchTold
  <2> QED
    BY <1>2, <2>4 DEF d
<1>6. CASE SwitchGatewayConsole
  <2>1. switch.key = "gp" /\ FromConsole(switch)
    BY <1>6 DEF SwitchGatewayConsole
  <2>2. PICK secret \in in.console : cfg' = Overlay(Only("Gateway.Password", secret), cfg)
    BY <1>6 DEF SwitchGatewayConsole
  <2> QED
    BY <1>2, <2>1, <2>2, OnlySame DEF SwitchTold, Told
<1> QED
  BY <1>3, <1>4, <1>5, <1>6 DEF Switches

\* The arguments before the next one.
LEMMA TypedNext ==
  ASSUME NEW b \in DOMAIN in.args, in.args \in Seq(Lines)
  PROVE  /\ b \in Nat
         /\ \A key : /\ Typed(key, b + 1) = Typed(key, b) \cup {k \in {b} : in.args[b].key = key}
                     /\ \A j \in Typed(key, b) : j \in Nat /\ j < b
<1>1. DOMAIN in.args \subseteq Nat
  OBVIOUS
<1>2. \A k \in DOMAIN in.args : k < b + 1 <=> k < b \/ k = b
  BY <1>1
<1>3. b \notin {j \in DOMAIN in.args : j < b}
  BY <1>1
<1> QED
  BY <1>1, <1>2, <1>3 DEF Typed

\* What a switch says is the last word so far.
LEMMA TypedByOne ==
  ASSUME NEW b \in DOMAIN in.args, in.args \in Seq(Lines), NEW c, NEW d,
         TypedFrom(b, c), SwitchTold(in.args[b], c, d)
  PROVE  TypedFrom(b + 1, d)
<1> DEFINE l == in.args[b]
<1>1. /\ b \in Nat
      /\ \A key : /\ Typed(key, b + 1) = Typed(key, b) \cup {k \in {b} : l.key = key}
                  /\ \A j \in Typed(key, b) : j \in Nat /\ j < b
  BY TypedNext
<1>2. ASSUME NEW key, l.key = key
      PROVE  Typed(key, b + 1) # {} /\ IsLast(b, Typed(key, b + 1))
  <2>1. Typed(key, b + 1) = Typed(key, b) \cup {b} /\ \A j \in Typed(key, b) : j \in Nat /\ j < b
    BY <1>1, <1>2
  <2>2. IsLast(b, Typed(key, b) \cup {b})
    BY <1>1, <2>1, LastAdded
  <2> QED
    BY <2>1, <2>2
<1>3. ASSUME NEW key, l.key # key
      PROVE  Typed(key, b + 1) = Typed(key, b)
  BY <1>1, <1>3
<1>4. Asked(b + 1) <=> Asked(b) \/ (l.key = "p" /\ FromConsole(l))
  BY <1>1 DEF Asked
<1>5. Given(d, "ReadPwStdin") <=> Asked(b + 1)
  <2>1. CASE l.key = "p" /\ FromConsole(l)
    BY <1>4, <2>1, PasswordsGiven DEF SwitchTold, Told
  <2>2. CASE ~(l.key = "p" /\ FromConsole(l))
    <3>1. Same(c, d, "ReadPwStdin")
      BY <2>2 DEF SwitchTold, Told
    <3>2. Given(d, "ReadPwStdin") <=> Given(c, "ReadPwStdin")
      BY <3>1, PasswordsGiven DEF Same
    <3> QED
      BY <1>4, <2>2, <3>2 DEF TypedFrom
  <2> QED
    BY <2>1, <2>2
<1>6. PasswordFrom(b + 1, d)
  <2>1. CASE l.key = "p" /\ FromConsole(l)
    BY <1>2, <1>4, <2>1 DEF PasswordFrom
  <2>2. CASE l.key = "p" /\ ~FromConsole(l)
    <3>1. "Password" \in DOMAIN d /\ d["Password"] = l.val
      BY <2>2 DEF SwitchTold, Told, FromConsole
    <3>2. Typed("p", b + 1) # {} /\ IsLast(b, Typed("p", b + 1))
      BY <1>2, <2>2
    <3> QED
      BY <3>1, <3>2 DEF PasswordFrom
  <2>3. CASE l.key # "p"
    <3>1. Same(c, d, "Password")
      BY <2>3 DEF SwitchTold, Told
    <3>2. Typed("p", b + 1) = Typed("p", b) /\ (Asked(b + 1) <=> Asked(b))
      BY <1>3, <1>4, <2>3
    <3>3. FileSource(c) => FileSource(d)
      BY <3>1 DEF FileSource, StoredFrom, Same
    <3>4. PasswordFrom(b, c)
      BY DEF TypedFrom
    <3> QED
      BY <3>1, <3>2, <3>3, <3>4 DEF PasswordFrom, Same
  <2> QED
    BY <2>1, <2>2, <2>3
<1>7. GatewayFrom(b + 1, d)
  <2>1. CASE l.key = "gp"
    <3>1. /\ "Gateway.Password" \in DOMAIN d
          /\ FromConsole(l) => d["Gateway.Password"] \in in.console
          /\ ~FromConsole(l) => d["Gateway.Password"] = l.val
      BY <2>1 DEF SwitchTold, Told
    <3>2. Typed("gp", b + 1) # {} /\ IsLast(b, Typed("gp", b + 1))
      BY <1>2, <2>1
    <3> QED
      BY <3>1, <3>2 DEF GatewayFrom
  <2>2. CASE l.key # "gp"
    <3>1. Same(c, d, "Gateway.Password")
      BY <2>2 DEF SwitchTold, Told
    <3>2. Typed("gp", b + 1) = Typed("gp", b)
      BY <1>3, <2>2
    <3>3. GatewayFrom(b, c)
      BY DEF TypedFrom
    <3> QED
      BY <3>1, <3>2, <3>3 DEF GatewayFrom, Same
  <2> QED
    BY <2>1, <2>2
<1> QED
  BY <1>5, <1>6, <1>7 DEF TypedFrom

LEMMA PasswordBySwitch == TypeInv /\ PasswordInv /\ Switches => PasswordInv'
<1> SUFFICES ASSUME TypeInv, PasswordInv, Switches PROVE PasswordInv'
  OBVIOUS
<1>1. /\ pc = "switches" /\ pc' = pc /\ in' = in /\ at' = at + 1 /\ at \in DOMAIN in.args
      /\ SwitchTold(switch, cfg, cfg')
  BY SwitchTells
<1> DEFINE d == cfg'  b == at
<1>2. b \in DOMAIN in.args /\ in.args \in Seq(Lines) /\ TypedFrom(b, cfg) /\ SwitchTold(in.args[b], cfg, d)
  BY <1>1, SwitchArgs DEF PasswordInv, switch
<1> HIDE DEF d, b
<1>3. TypedFrom(b + 1, d)
  BY <1>2, TypedByOne
<1>4. TypedFrom(at, cfg)'
  BY <1>1, <1>3 DEF TypedFrom, PasswordFrom, GatewayFrom, FileSource, StoredFrom, Stored, Typed,
                    Asked, HasFile, IsFile, d, b
<1> QED
  BY <1>1, <1>4 DEF PasswordInv

LEMMA PasswordAtEnd == TypeInv /\ PasswordInv /\ EndSwitches => PasswordInv'
<1> SUFFICES ASSUME TypeInv, PasswordInv, EndSwitches PROVE PasswordInv'
  OBVIOUS
<1>1. /\ pc = "switches" /\ pc' \in {"exit", "passwords"} /\ at > Len(in.args)
      /\ in' = in /\ cfg' = cfg
  BY DEF EndSwitches
<1>2. \A k \in DOMAIN in.args : k < at <=> k < Len(in.args) + 1
  BY <1>1, SwitchArgs DEF TypeInv, TypeOK
<1>3. \A key : Typed(key, at) = Typed(key, Len(in.args) + 1)
  BY <1>2 DEF Typed
<1>4. TypedFrom(Len(in.args) + 1, cfg)
  BY <1>1, <1>3 DEF PasswordInv, TypedFrom, PasswordFrom, GatewayFrom, Asked
<1>5. TypedFrom(Len(in.args) + 1, cfg)'
  BY <1>1, <1>4 DEF TypedFrom, PasswordFrom, GatewayFrom, FileSource, StoredFrom, Stored, Typed,
                    Asked, HasFile, IsFile
<1> QED
  BY <1>1, <1>5 DEF PasswordInv

-----------------------------------------------------------------------------
(* The environment and the console.                                        *)

LEMMA FilledFrom ==
  /\ "Password" \in DOMAIN Filled
       <=> "Password" \in DOMAIN cfg \/ (in.env # {} /\ ~Given(cfg, "ReadPwStdin"))
  /\ "Password" \in DOMAIN cfg => Filled["Password"] = cfg["Password"]
  /\ "Password" \in DOMAIN Filled /\ "Password" \notin DOMAIN cfg
       => Filled["Password"] \in in.env
  /\ "Gateway.Password" \in DOMAIN Filled
       <=> "Gateway.Password" \in DOMAIN cfg \/ in.gatewayEnv # {}
  /\ "Gateway.Password" \in DOMAIN cfg => Filled["Gateway.Password"] = cfg["Gateway.Password"]
  /\ "Gateway.Password" \in DOMAIN Filled /\ "Gateway.Password" \notin DOMAIN cfg
       => Filled["Gateway.Password"] \in in.gatewayEnv
<1>1. /\ "Password" \in FromEnvironment
           <=> in.env # {} /\ "Password" \notin DOMAIN cfg /\ ~Given(cfg, "ReadPwStdin")
      /\ "Gateway.Password" \in FromEnvironment
           <=> in.gatewayEnv # {} /\ "Gateway.Password" \notin DOMAIN cfg
  BY PasswordsGiven DEF FromEnvironment
<1> DEFINE new == [o \in FromEnvironment |->
                     CHOOSE v \in (IF o = "Password" THEN in.env ELSE in.gatewayEnv) : TRUE]
<1>2. /\ DOMAIN new = FromEnvironment
      /\ "Password" \in FromEnvironment => new["Password"] \in in.env
      /\ "Gateway.Password" \in FromEnvironment => new["Gateway.Password"] \in in.gatewayEnv
  BY <1>1
<1>3. Filled = Overlay(new, cfg)
  BY DEF Filled
<1> HIDE DEF new
<1>4. /\ DOMAIN Overlay(new, cfg) = DOMAIN new \cup DOMAIN cfg
      /\ \A o \in DOMAIN new : Overlay(new, cfg)[o] = new[o]
      /\ \A o \in DOMAIN cfg \ DOMAIN new : Overlay(new, cfg)[o] = cfg[o]
  BY OverlayOf
<1> QED
  BY <1>1, <1>2, <1>3, <1>4

\* The arguments and lines that count in the end.
LEMMA AllCount ==
  ASSUME TypeInv
  PROVE  /\ \A key : Typed(key, Len(in.args) + 1) = {k \in DOMAIN in.args : in.args[k].key = key}
         /\ Stored(Len(in.file) + 1)
              = {k \in DOMAIN in.file : in.file[k].key = "password 51" /\ in.file[k].ok}
         /\ \A key, b : Typed(key, b) \subseteq Nat
         /\ \A b : Stored(b) \subseteq Nat
<1>1. /\ \A k \in DOMAIN in.args : k < Len(in.args) + 1
      /\ \A k \in DOMAIN in.file : k < Len(in.file) + 1
      /\ DOMAIN in.args \subseteq Nat /\ DOMAIN in.file \subseteq Nat
  BY InputTypes DEF TypeInv
<1> QED
  BY <1>1 DEF Typed, Stored

\* The gateway's password is what the last /gp says, or the environment.
LEMMA GatewayFilled ==
  ASSUME TypeInv, GatewayFrom(Len(in.args) + 1, cfg), NEW d, Same(Filled, d, "Gateway.Password")
  PROVE  Came(d, "Gateway.Password", GatewayOf)
<1> DEFINE S == Typed("gp", Len(in.args) + 1)
<1>1. /\ S = {k \in DOMAIN in.args : in.args[k].key = "gp"}
      /\ S \subseteq Nat
  BY AllCount
<1>2. /\ S = {} => "Gateway.Password" \notin DOMAIN cfg
      /\ S # {} => /\ "Gateway.Password" \in DOMAIN cfg
                   /\ \E k \in DOMAIN in.args :
                        /\ IsLast(k, S)
                        /\ FromConsole(in.args[k]) => cfg["Gateway.Password"] \in in.console
                        /\ ~FromConsole(in.args[k]) => cfg["Gateway.Password"] = in.args[k].val
  BY DEF GatewayFrom
<1>3. GatewayOf = IF S = {} THEN in.gatewayEnv
                  ELSE IF FromConsole(in.args[LastOf(S)]) THEN in.console
                  ELSE {in.args[LastOf(S)].val}
  BY <1>1 DEF GatewayOf
<1> HIDE DEF S
<1>4. CASE S = {}
  BY <1>2, <1>3, <1>4, FilledFrom DEF Came, Same
<1>5. CASE S # {}
  <2>1. PICK k \in DOMAIN in.args :
          /\ IsLast(k, S)
          /\ FromConsole(in.args[k]) => cfg["Gateway.Password"] \in in.console
          /\ ~FromConsole(in.args[k]) => cfg["Gateway.Password"] = in.args[k].val
    BY <1>2, <1>5
  <2>2. LastOf(S) = k
    BY <1>1, <2>1, LastOfIs
  <2>3. "Gateway.Password" \in DOMAIN d /\ d["Gateway.Password"] = cfg["Gateway.Password"]
    BY <1>2, <1>5, FilledFrom DEF Same
  <2> QED
    BY <1>3, <1>5, <2>1, <2>2, <2>3 DEF Came
<1> QED
  BY <1>4, <1>5

\* The password is what the last /p says, or the file, or the environment.
LEMMA PasswordFilled ==
  ASSUME TypeInv, PasswordFrom(Len(in.args) + 1, cfg), ~Asked(Len(in.args) + 1),
         ~Given(cfg, "ReadPwStdin")
  PROVE  Came(Filled, "Password", PasswordOf)
<1> DEFINE S == Typed("p", Len(in.args) + 1)
           T == Stored(Len(in.file) + 1)
<1>1. /\ S = {k \in DOMAIN in.args : in.args[k].key = "p"}
      /\ T = {k \in DOMAIN in.file : in.file[k].key = "password 51" /\ in.file[k].ok}
      /\ S \subseteq Nat /\ T \subseteq Nat
  BY AllCount
<1>2. /\ S = {} => FileSource(cfg)
      /\ S # {} =>
           /\ "Password" \in DOMAIN cfg
           /\ \E k \in DOMAIN in.args : IsLast(k, S) /\ cfg["Password"] = in.args[k].val
  BY DEF PasswordFrom
<1>3. PasswordOf = IF S # {} THEN {in.args[LastOf(S)].val}
                   ELSE IF HasFile /\ T # {} THEN {in.file[LastOf(T)].val}
                   ELSE in.env
  <2>1. ~\E k \in S : FromConsole(in.args[k])
    BY DEF Asked
  <2> HIDE DEF S, T
  <2> QED
    BY <1>1, <2>1 DEF PasswordOf
<1>4. S = {} =>
        /\ HasFile /\ T # {} =>
             /\ "Password" \in DOMAIN cfg
             /\ \E k \in DOMAIN in.file : IsLast(k, T) /\ cfg["Password"] = in.file[k].val
        /\ ~(HasFile /\ T # {}) => "Password" \notin DOMAIN cfg
  BY <1>2 DEF FileSource, StoredFrom
<1> HIDE DEF S, T
<1>5. CASE S # {}
  <2>1. PICK k \in DOMAIN in.args : IsLast(k, S) /\ cfg["Password"] = in.args[k].val
    BY <1>2, <1>5
  <2>2. LastOf(S) = k
    BY <1>1, <2>1, LastOfIs
  <2>3. "Password" \in DOMAIN Filled /\ Filled["Password"] = cfg["Password"]
    BY <1>2, <1>5, FilledFrom
  <2> QED
    BY <1>3, <1>5, <2>1, <2>2, <2>3 DEF Came
<1>6. CASE S = {} /\ HasFile /\ T # {}
  <2>1. PICK k \in DOMAIN in.file : IsLast(k, T) /\ cfg["Password"] = in.file[k].val
    BY <1>4, <1>6
  <2>2. LastOf(T) = k
    BY <1>1, <2>1, LastOfIs
  <2>3. "Password" \in DOMAIN Filled /\ Filled["Password"] = cfg["Password"]
    BY <1>4, <1>6, FilledFrom
  <2> QED
    BY <1>3, <1>6, <2>1, <2>2, <2>3 DEF Came
<1>7. CASE S = {} /\ ~(HasFile /\ T # {})
  <2>1. PasswordOf = in.env /\ "Password" \notin DOMAIN cfg
    BY <1>3, <1>4, <1>7
  <2> QED
    BY <2>1, FilledFrom DEF Came
<1> QED
  BY <1>5, <1>6, <1>7

\* Where the passwords come from does not change.
LEMMA SourcesKept ==
  ASSUME in' = in
  PROVE  PasswordOf' = PasswordOf /\ GatewayOf' = GatewayOf
<1>1. HasFile' = HasFile
  BY DEF HasFile, IsFile
<1>2. GatewayOf' = GatewayOf
  BY DEF GatewayOf, LastOf
<1>3. PasswordOf' = PasswordOf
  BY <1>1 DEF PasswordOf, LastOf
<1> QED
  BY <1>2, <1>3

LEMMA PasswordByReading == TypeInv /\ PasswordInv /\ ReadPasswords => PasswordInv'
<1> SUFFICES ASSUME TypeInv, PasswordInv, ReadPasswords PROVE PasswordInv'
  OBVIOUS
<1>1. pc = "passwords" /\ pc' \in {"validate", "failed"} /\ in' = in
  BY DEF ReadPasswords
<1>2. TypedFrom(Len(in.args) + 1, cfg)
  BY <1>1 DEF PasswordInv
<1> DEFINE d == cfg'
<1>3. ASSUME pc' = "validate"
      PROVE  Origin(d)
  <2>1. CASE ~Given(cfg, "ReadPwStdin")
    <3>1. d = Filled
      BY <1>3, <2>1 DEF ReadPasswords
    <3>2. ~Asked(Len(in.args) + 1)
      BY <1>2, <2>1 DEF TypedFrom
    <3>3. Came(Filled, "Password", PasswordOf)
      BY <1>2, <2>1, <3>2, PasswordFilled DEF TypedFrom
    <3>4. Same(Filled, Filled, "Gateway.Password")
      BY DEF Same
    <3>5. Came(Filled, "Gateway.Password", GatewayOf)
      BY <1>2, <3>4, GatewayFilled DEF TypedFrom
    <3> QED
      BY <3>1, <3>3, <3>5 DEF Origin
  <2>2. CASE Given(cfg, "ReadPwStdin")
    <3>1. PICK secret \in in.console : d = Overlay(Only("Password", secret), Filled)
      BY <1>3, <2>2 DEF ReadPasswords
    <3> HIDE DEF d
    <3>2. /\ "Password" \in DOMAIN d /\ d["Password"] \in in.console
          /\ Same(Filled, d, "Gateway.Password")
      BY <3>1, OnlySame
    <3>3. PasswordOf = in.console
      <4>1. Asked(Len(in.args) + 1)
        BY <1>2, <2>2 DEF TypedFrom
      <4>2. \E k \in {j \in DOMAIN in.args : in.args[j].key = "p"} : FromConsole(in.args[k])
        BY <4>1 DEF Asked, Typed
      <4> QED
        BY <4>2 DEF PasswordOf
    <3>4. Came(d, "Gateway.Password", GatewayOf)
      BY <1>2, <3>2, GatewayFilled DEF TypedFrom
    <3> QED
      BY <3>2, <3>3, <3>4 DEF Origin, Came
  <2> QED
    BY <2>1, <2>2
<1>4. pc' = "validate" => Origin(cfg)'
  BY <1>1, <1>3, SourcesKept DEF Origin, Came
<1> QED
  BY <1>1, <1>4 DEF PasswordInv

-----------------------------------------------------------------------------
(* Afterwards nothing changes a password.                                  *)

LEMMA PasswordKept ==
  ASSUME Origin(cfg), in' = in, Same(cfg, cfg', "Password"), Same(cfg, cfg', "Gateway.Password")
  PROVE  Origin(cfg)'
<1> DEFINE d == cfg'
<1>1. Origin(d)
  BY DEF Origin, Came, Same
<1> QED
  BY <1>1, SourcesKept DEF Origin, Came

LEMMA PasswordAfterwards ==
  ASSUME TypeInv, PasswordInv, Validate \/ Apply
  PROVE  PasswordInv'
<1>1. /\ pc \in {"validate", "apply", "override", "done"} /\ in' = in
      /\ pc' \notin {"start", "file", "switches", "passwords"}
  BY DEF Validate, Apply, WriteSetting, WarnSetting, FailSetting, Due, EndSettings, WriteOverride,
         EndOverrides
<1>2. Origin(cfg)
  BY <1>1 DEF PasswordInv
<1>3. cfg' = cfg \/ cfg' = Derived(cfg) \/ \E n : cfg' = Completed(n)
  BY DEF Validate, Apply, WriteSetting, WarnSetting, FailSetting, EndSettings, WriteOverride,
         EndOverrides
<1>4. Same(cfg, cfg', "Password") /\ Same(cfg, cfg', "Gateway.Password")
  <2>1. CASE cfg' = cfg
    BY <2>1 DEF Same
  <2>2. CASE cfg' = Derived(cfg)
    BY <2>2, DerivedOf DEF Same
  <2>3. ASSUME NEW n, cfg' = Completed(n)
        PROVE  Same(cfg, cfg', "Password") /\ Same(cfg, cfg', "Gateway.Password")
    BY <2>3, CompletedOf DEF Same
  <2> QED
    BY <1>3, <2>1, <2>2, <2>3
<1>5. Origin(cfg)'
  BY <1>1, <1>2, <1>4, PasswordKept
<1> QED
  BY <1>1, <1>5 DEF PasswordInv

LEMMA PasswordStep == TypeInv /\ PasswordInv /\ [Next]_vars => PasswordInv'
<1> SUFFICES ASSUME TypeInv, PasswordInv, [Next]_vars PROVE PasswordInv'
  OBVIOUS
<1>1. CASE FindFile
  <2>1. /\ pc = "start" /\ pc' \in {"file", "switches", "failed"} /\ in' = in /\ at' = at /\ cfg' = cfg
        /\ (pc' = "file" => HasFile) /\ (pc' = "switches" => ~HasFile)
    BY <1>1 DEF FindFile
  <2>2. at = 1 /\ cfg = NewConfig
    BY <2>1 DEF PasswordInv
  <2>3. Untyped(cfg) /\ "Password" \notin DOMAIN cfg
    BY <2>2 DEF NewConfig, Untyped
  <2>4. StoredFrom(1, cfg)
    <3>1. \A k \in DOMAIN in.file : ~(k < 1)
      BY InputTypes DEF TypeInv
    <3> QED
      BY <2>3, <3>1 DEF StoredFrom, Stored
  <2>5. ~HasFile => TypedFrom(1, cfg)
    <3>1. ~HasFile => FileSource(cfg)
      BY <2>3 DEF FileSource
    <3> QED
      BY <2>3, <3>1, FirstSwitch
  <2>6. pc' = "file" => (HasFile /\ StoredFrom(at, cfg) /\ Untyped(cfg))'
    BY <2>1, <2>2, <2>3, <2>4 DEF StoredFrom, Stored, Untyped, HasFile, IsFile
  <2>7. pc' = "switches" => TypedFrom(at, cfg)'
    BY <2>1, <2>2, <2>5 DEF TypedFrom, PasswordFrom, GatewayFrom, FileSource, StoredFrom, Stored,
                            Typed, Asked, HasFile, IsFile
  <2> QED
    BY <2>1, <2>6, <2>7 DEF PasswordInv
<1>2. CASE ReadAnyLine
  BY <1>2, StoredByLine
<1>3. CASE EndFile
  BY <1>3, StoredAtEnd
<1>4. CASE Switches
  BY <1>4, PasswordBySwitch
<1>5. CASE SwitchRejected
  BY <1>5 DEF SwitchRejected, PasswordInv
<1>6. CASE EndSwitches
  BY <1>6, PasswordAtEnd
<1>7. CASE ReadPasswords
  BY <1>7, PasswordByReading
<1>8. CASE Validate \/ Apply
  BY <1>8, PasswordAfterwards
<1>9. CASE UNCHANGED vars
  <2>1. in' = in /\ pc' = pc /\ at' = at /\ cfg' = cfg
    BY <1>9 DEF vars
  <2>2. StoredFrom(at, cfg) => StoredFrom(at, cfg)'
    BY <2>1 DEF StoredFrom, Stored
  <2>3. TypedFrom(at, cfg) => TypedFrom(at, cfg)'
    BY <2>1 DEF TypedFrom, PasswordFrom, GatewayFrom, FileSource, StoredFrom, Stored,
                Typed, Asked, HasFile, IsFile
  <2>4. TypedFrom(Len(in.args) + 1, cfg) => TypedFrom(Len(in.args) + 1, cfg)'
    BY <2>1 DEF TypedFrom, PasswordFrom, GatewayFrom, FileSource, StoredFrom, Stored,
                Typed, Asked, HasFile, IsFile
  <2>5. Origin(cfg) => Origin(cfg)'
    BY <2>1, PasswordKept DEF Same
  <2>6. HasFile' = HasFile /\ Untyped(cfg)' = Untyped(cfg)
    BY <2>1 DEF HasFile, IsFile, Untyped
  <2> QED
    BY <2>1, <2>2, <2>3, <2>4, <2>5, <2>6 DEF PasswordInv
<1> QED
  BY <1>1, <1>2, <1>3, <1>4, <1>5, <1>6, <1>7, <1>8, <1>9 DEF Next, Read, ReadAnyLine, Switches, Stopped

\* A password comes from the console, else the last /p, else the file, else the
\* environment, and the gateway's from the last /gp, else the environment, whatever
\* the file and the command line (PasswordOrigin).
THEOREM PasswordOriginTheorem == Spec => []PasswordOrigin
<1>1. Init => PasswordInv
  BY DEF Init, PasswordInv
<1>2. PasswordInv => PasswordOrigin
  BY DEF PasswordInv, PasswordOrigin, Origin, Came, PasswordOf, GatewayOf, LastOf
<1> QED
  BY <1>1, <1>2, TypeInit, TypeStep, PasswordStep, PTL DEF Spec

-----------------------------------------------------------------------------
(* What the connection cannot do without is written.                       *)

\* No warning stands for the server or for the size.
NoWarningForMust ==
  \A n \in DOMAIN Order : Order[n].option \in Must => n \notin warned

LEMMA MustIsWanted == Must \subseteq Always
BY DEF Must, Always

LEMMA ReadKeepsWarned == Read => warned' = warned
<1> SUFFICES ASSUME Read PROVE warned' = warned
  OBVIOUS
<1> USE DEF applied
<1>1. ReadLine => warned' = warned
  BY DEF ReadLine
<1>2. ReadSwitch => warned' = warned
  BY DEF ReadSwitch
<1>3. ReadSetting \/ ReadPrompt \/ ReadScreenMode \/ ReadPerformance \/ SkipLine => ReadLine
  BY DEF ReadSetting, ReadPrompt, ReadScreenMode, ReadPerformance, SkipLine
<1>4. SkipFile \/ SwitchSetting \/ SwitchConsole \/ SwitchGatewayConsole
        \/ SwitchOverride \/ SwitchEarly \/ SwitchRejected => ReadSwitch
  BY DEF SkipFile, SwitchSetting, SwitchConsole, SwitchGatewayConsole, SwitchOverride,
     SwitchEarly, SwitchRejected
<1>5. FindFile \/ EndFile \/ EndSwitches \/ ReadPasswords \/ Validate => warned' = warned
  BY DEF FindFile, EndFile, EndSwitches, ReadPasswords, Validate
<1> QED
  BY <1>1, <1>2, <1>3, <1>4, <1>5 DEF Read

LEMMA NoWarningForMustStep == NoWarningForMust /\ [Next]_vars => NoWarningForMust'
<1> SUFFICES ASSUME NoWarningForMust, [Next]_vars PROVE NoWarningForMust'
  OBVIOUS
<1>1. CASE warned' = warned
  BY <1>1 DEF NoWarningForMust
<1>2. ASSUME NEW n \in DOMAIN Order, WarnSetting(n) PROVE NoWarningForMust'
  <2>1. warned' = warned \cup {n} /\ Order[n].option \notin Must
    BY <1>2 DEF WarnSetting
  <2> QED
    BY <2>1 DEF NoWarningForMust
<1>3. ASSUME NEW n \in DOMAIN Order, WriteSetting(n) \/ FailSetting(n)
      PROVE  warned' = warned
  BY <1>3 DEF WriteSetting, FailSetting, applied
<1>4. EndSettings \/ WriteOverride \/ EndOverrides \/ Stopped \/ UNCHANGED vars
        => warned' = warned
  BY DEF EndSettings, WriteOverride, EndOverrides, Stopped, vars, applied
<1> QED
  BY <1>1, <1>2, <1>3, <1>4, ReadKeepsWarned DEF Next, Apply

\* A connection is attempted only with the server and the size the user asked for,
\* or with what an override put in their place: no warning makes up for a control
\* that does not take them (apply.go, applySettings).
THEOREM MustIsWritten ==
  Spec => [](pc = "done" =>
               \A n \in DOMAIN Order : Order[n].option \in Must => Written(n))
<1> DEFINE Result ==
      pc = "done" => \A n \in DOMAIN Order : Order[n].option \in Must => Written(n)
<1>1. Init => NoWarningForMust
  BY DEF Init, NoWarningForMust
<1>2. NoWarningForMust /\ WrittenOrWarned => Result
  BY MustIsWanted DEF NoWarningForMust, WrittenOrWarned, Wanted
<1> HIDE DEF Result
<1>3. Spec => []Result
  BY <1>1, <1>2, NoWarningForMustStep, WrittenOrWarnedTheorem, PTL DEF Spec
<1> QED
  BY <1>3 DEF Result

-----------------------------------------------------------------------------
(* Reading and applying end.                                               *)

\* The parts of the program still to come.
PartsLeft ==
  CASE pc = "start"     -> 7
    [] pc = "file"      -> 6
    [] pc = "switches"  -> 5
    [] pc = "passwords" -> 4
    [] pc = "validate"  -> 3
    [] pc = "apply"     -> 2
    [] pc = "override"  -> 1
    [] OTHER            -> 0

\* What the loop of this part runs over.
Turns ==
  CASE pc = "file"     -> Len(in.file)
    [] pc = "switches" -> Len(in.args)
    [] pc = "apply"    -> Len(Order)
    [] pc = "override" -> Len(overrides)
    [] OTHER           -> 0

TurnsToCome == IF at <= Turns THEN Turns + 1 - at ELSE 0

Advances ==
  \/ PartsLeft' < PartsLeft
  \/ PartsLeft' = PartsLeft /\ TurnsToCome' < TurnsToCome

LEMMA TurnsAreNat == TypeInv => Turns \in Nat /\ at \in Nat
<1> SUFFICES ASSUME TypeInv PROVE Turns \in Nat /\ at \in Nat
  OBVIOUS
<1>1. Len(in.file) \in Nat /\ Len(in.args) \in Nat
  BY InputTypes DEF TypeInv
<1>2. Len(overrides) \in Nat /\ at \in Nat
  BY DEF TypeInv, TypeOK
<1>3. Len(Order) \in Nat
  BY DEF Order
<1> QED
  BY <1>1, <1>2, <1>3 DEF Turns

\* A turn of a loop takes one position, or several.
LEMMA TurnTaken ==
  ASSUME TypeInv, TypeInv', pc' = pc, Turns' = Turns, at <= Turns, at' > at
  PROVE  Advances
<1>1. PartsLeft' = PartsLeft
  BY DEF PartsLeft
<1>2. TurnsToCome' < TurnsToCome
  <2>1. {Turns, at, at'} \subseteq Nat
    BY TurnsAreNat DEF TypeInv, TypeOK
  <2>2. TurnsToCome = Turns + 1 - at
    BY DEF TurnsToCome
  <2>3. TurnsToCome' = IF at' <= Turns THEN Turns + 1 - at' ELSE 0
    BY DEF TurnsToCome
  <2> QED
    BY <2>1, <2>2, <2>3
<1> QED
  BY <1>1, <1>2 DEF Advances

LEMMA LineTaken == TypeInv /\ TypeInv' /\ ReadLine => Advances
<1> SUFFICES ASSUME TypeInv, TypeInv', ReadLine PROVE Advances
  OBVIOUS
<1>1. pc' = pc /\ at <= Turns /\ Turns' = Turns
  BY DEF ReadLine, Turns
<1>2. at' > at
  BY TurnsAreNat DEF ReadLine
<1> QED
  BY <1>1, <1>2, TurnTaken

LEMMA SwitchTaken == TypeInv /\ TypeInv' /\ ReadSwitch /\ pc' \in {pc, "failed"} => Advances
<1> SUFFICES ASSUME TypeInv, TypeInv', ReadSwitch, pc' \in {pc, "failed"} PROVE Advances
  OBVIOUS
<1>1. CASE pc' = "failed"
  BY <1>1 DEF ReadSwitch, PartsLeft, Advances
<1>2. CASE pc' = pc
  <2>1. at <= Turns /\ Turns' = Turns
    BY <1>2 DEF ReadSwitch, Turns
  <2>2. at' > at
    BY TurnsAreNat DEF ReadSwitch
  <2> QED
    BY <1>2, <2>1, <2>2, TurnTaken
<1> QED
  BY <1>1, <1>2

LEMMA SettingTaken ==
  ASSUME TypeInv, TypeInv', NEW n \in DOMAIN Order,
         WriteSetting(n) \/ WarnSetting(n) \/ FailSetting(n)
  PROVE  Advances
<1>1. CASE FailSetting(n)
  BY <1>1 DEF FailSetting, Due, PartsLeft, Advances
<1>2. CASE WriteSetting(n) \/ WarnSetting(n)
  <2>1. pc = "apply" /\ pc' = pc /\ at <= n /\ at' = n + 1
    BY <1>2 DEF WriteSetting, WarnSetting, Due
  <2>2. n \in Nat /\ n <= Len(Order) /\ at \in Nat
    BY OrderDomain, TurnsAreNat DEF Order
  <2>3. Turns = Len(Order) /\ Turns' = Len(Order) /\ Len(Order) \in Nat
    BY <2>1 DEF Turns, Order
  <2> QED
    BY <2>1, <2>2, <2>3, TurnTaken
<1> QED
  BY <1>1, <1>2

LEMMA OverrideTaken == TypeInv /\ TypeInv' /\ WriteOverride => Advances
<1> SUFFICES ASSUME TypeInv, TypeInv', WriteOverride PROVE Advances
  OBVIOUS
<1>1. pc' = pc /\ at <= Turns /\ Turns' = Turns
  BY DEF WriteOverride, Turns
<1>2. at' > at
  BY TurnsAreNat DEF WriteOverride
<1> QED
  BY <1>1, <1>2, TurnTaken

\* Reading the arguments and applying the settings end, whatever they are: every
\* step starts a later part of the program or takes a turn from the loop of this
\* one (cli.go, parseArgs; apply.go, applySettings).
THEOREM SettingsEnd ==
  Spec => /\ [](PartsLeft \in Nat /\ TurnsToCome \in Nat)
          /\ [][Read \/ Apply => Advances]_vars
<1> DEFINE Measured == PartsLeft \in Nat /\ TurnsToCome \in Nat
           Moves == Read \/ Apply => Advances
<1>1. TypeInv => Measured
  BY TurnsAreNat DEF PartsLeft, TurnsToCome
<1>2. TypeInv /\ TypeInv' => Moves
  <2> SUFFICES ASSUME TypeInv, TypeInv', Read \/ Apply PROVE Advances
    OBVIOUS
  <2>1. FindFile \/ EndFile \/ EndSwitches \/ ReadPasswords \/ Validate
          \/ EndSettings \/ EndOverrides => Advances
    BY DEF FindFile, EndFile, EndSwitches, ReadPasswords, Validate, EndSettings,
       EndOverrides, PartsLeft, Advances
  <2>2. ReadSetting \/ ReadPrompt \/ ReadScreenMode \/ ReadPerformance \/ SkipLine
          => Advances
    BY LineTaken DEF ReadSetting, ReadPrompt, ReadScreenMode, ReadPerformance, SkipLine
  <2>3. SkipFile \/ SwitchSetting \/ SwitchConsole \/ SwitchGatewayConsole
          \/ SwitchOverride \/ SwitchEarly \/ SwitchRejected => Advances
    BY SwitchTaken DEF SkipFile, SwitchSetting, SwitchConsole, SwitchGatewayConsole,
       SwitchOverride, SwitchEarly, SwitchRejected
  <2>4. Apply => Advances
    BY <2>1, SettingTaken, OverrideTaken DEF Apply
  <2> QED
    BY <2>1, <2>2, <2>3, <2>4 DEF Read
<1> HIDE DEF Measured, Moves
<1>3. Spec => []Measured /\ [][Moves]_vars
  BY <1>1, <1>2, TypeInit, TypeStep, PTL DEF Spec
<1> QED
  BY <1>3 DEF Measured, Moves
=============================================================================

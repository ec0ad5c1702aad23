------------------------------ MODULE Settings ------------------------------
(***************************************************************************)
(* From the .rdp file, the switches, the environment and the console to    *)
(* the properties of the control: parseArgs (cli.go) reads the file and    *)
(* then the switches into one configuration, Validate (config.go) checks   *)
(* it, and applySettings (apply.go) writes it to the control, setting by   *)
(* setting, under the names this Windows build may know them by, with the  *)
(* raw overrides of /set last.                                             *)
(*                                                                         *)
(* A step is one line, one switch or one setting.  The text of the file    *)
(* and of the command line is taken as parsed (a switch whatever its       *)
(* spelling, with its value), and the properties of the control by their   *)
(* paths, of which the control lacks some and refuses others a value; a    *)
(* path spelled in two ways (case, "control.") is one path.                *)
(* Between Validate and applySettings App.Run creates the control: see App *)
(* and OleHost.  Messages are left out except for which settings a warning *)
(* has named.                                                              *)
(*                                                                         *)
(* An operator whose comment starts with "Mutant" is the wrong version of  *)
(* the definition that follows it.                                         *)
(***************************************************************************)
EXTENDS Naturals, Sequences, Config

CONSTANTS
  Inputs,     \* what the program may be started with, and on
  Bits,       \* the bits of the performance flags
  BitsOf,     \* by number, spelled out, the bits that are set in it
  LineBit     \* pairs of a line of a .rdp file and the bit it spells out

\* A line of the file or an argument: see Config.
Lines == [key : STRING, val : STRING, split : STRING, ok : BOOLEAN]

\* One start: the arguments (the file is the one with key ".rdp"), the lines of
\* the file and whether it can be read, the passwords in the environment, what
\* the console answers, the paths the control lacks, those that refuse the
\* setting's value, and the positions of the overrides that are refused.
ASSUME InputsAssumption ==
  \A i \in Inputs :
    /\ i.args \in Seq(Lines) /\ i.file \in Seq(Lines)
    /\ \A k \in DOMAIN i.file :
         i.file[k].key = "performanceflags" /\ i.file[k].ok => BitsOf[i.file[k].val] \subseteq Bits

\* A line spells out one bit at most, and nothing else.
ASSUME LineBitAssumption ==
  \A p \in LineBit :
    /\ p[1] \notin {"prompt for credentials", "screen mode id", "performanceflags"}
    /\ \A o \in Options : <<p[1], o>> \notin Words(FileWords)
    /\ \A q \in LineBit : p[1] = q[1] => p[2] = q[2]

VARIABLES
  in,         \* the input, which stays as it is
  pc,         \* the part of the program that runs
  at,         \* the line, switch, setting or override it has come to
  cfg,        \* the configuration
  screen,     \* the last screen mode of the file, "" for none
  perf,       \* the performance flags of the file so far
  perfSeen,   \* did the file mention them?
  overrides,  \* the paths of /set, in order
  early,      \* help or version asked for
  holds,      \* by path, who wrote the control's property
  warned,     \* the settings a warning has named
  refused     \* the overrides a warning has named

vars == <<in, pc, at, cfg, screen, perf, perfSeen, overrides, early, holds, warned, refused>>

reading == <<screen, perf, perfSeen>>
applied == <<holds, warned, refused>>

-----------------------------------------------------------------------------
(* The .rdp file (applyRDPFile).                                           *)

IsFile(k) == in.args[k].key = ".rdp" /\ \A j \in 1..(k - 1) : in.args[j].key # ".rdp"

HasFile == \E k \in DOMAIN in.args : IsFile(k)

Init ==
  /\ in \in Inputs
  /\ pc = "start" /\ at = 1
  /\ cfg = NewConfig
  /\ screen = "" /\ perf = {} /\ perfSeen = FALSE
  /\ overrides = <<>> /\ early = {}
  /\ holds = Nothing /\ warned = {} /\ refused = {}

\* Pass 1 of parseArgs: the file is read first, wherever it stands.
FindFile ==
  /\ pc = "start"
  /\ pc' = IF ~HasFile THEN "switches" ELSE IF in.readable THEN "file" ELSE "failed"
  /\ UNCHANGED <<in, at, cfg, reading, overrides, early, applied>>

line == in.file[at]

ReadLine ==
  /\ pc = "file" /\ at <= Len(in.file)
  /\ at' = at + 1
  /\ UNCHANGED <<in, pc, overrides, early, applied>>

\* Mutant: the last address counts, whichever it is.
NeverSuperseded == FALSE

\* The alternate address is for want of the other one.
Superseded == line.key = "alternate full address" /\ Given(cfg, "Server")

ReadSetting ==
  /\ ReadLine
  /\ line.ok /\ ~Superseded
  /\ \E o \in Options : <<line.key, o>> \in Words(FileWords)
  /\ cfg' = Overlay(FileSays(line), cfg)
  /\ UNCHANGED reading

\* The file can ask for the prompt, not forbid it.
ReadPrompt ==
  /\ ReadLine
  /\ line.key = "prompt for credentials" /\ line.ok /\ Flag(line.val) = "1"
  /\ cfg' = Overlay(Only("PromptForCreds", "1"), cfg)
  /\ UNCHANGED reading

ReadScreenMode ==
  /\ ReadLine
  /\ line.key = "screen mode id" /\ line.ok
  /\ screen' = line.val
  /\ UNCHANGED <<cfg, perf, perfSeen>>

\* Mutant: the number adds to what has been spelled out before it.
NumberAdds(v) == perf \cup BitsOf[v]

Number(v) == BitsOf[v]

ReadPerformance ==
  /\ ReadLine /\ line.ok
  /\ \/ /\ line.key = "performanceflags"
        /\ perf' = Number(line.val)
     \/ \E b \in Bits :
          /\ <<line.key, b>> \in LineBit
          /\ perf' = IF Flag(line.val) = "1" THEN perf \cup {b} ELSE perf \ {b}
  /\ perfSeen' = TRUE
  /\ UNCHANGED <<cfg, screen>>

\* Lines that do not parse, that say nothing, and that are not known.
SkipLine ==
  /\ ReadLine
  /\ \/ ~line.ok
     \/ Superseded
     \/ line.key = "prompt for credentials" /\ Flag(line.val) = "0"
     \/ /\ line.key \notin {"prompt for credentials", "screen mode id", "performanceflags"}
        /\ \A o \in Options : <<line.key, o>> \notin Words(FileWords)
        /\ \A b \in Bits : <<line.key, b>> \notin LineBit
  /\ UNCHANGED <<cfg, reading>>

\* What is known only when the whole file has been read.
Deferred ==
  [o \in {x \in {"FullScreen"} : screen # ""} \cup {x \in {"PerformanceFlags"} : perfSeen} |->
     IF o = "PerformanceFlags" THEN perf ELSE IF screen = "2" THEN "1" ELSE "0"]

EndFile ==
  /\ pc = "file" /\ at > Len(in.file)
  /\ pc' = "switches" /\ at' = 1
  /\ cfg' = Overlay(Deferred, cfg)
  /\ UNCHANGED <<in, reading, overrides, early, applied>>

-----------------------------------------------------------------------------
(* The switches, and the passwords that are not among them (parseArgs).    *)

switch == in.args[at]

ReadSwitch ==
  /\ pc = "switches" /\ at <= Len(in.args)
  /\ at' = at + 1
  /\ UNCHANGED <<in, reading, applied>>

SkipFile ==
  /\ ReadSwitch /\ IsFile(at)
  /\ UNCHANGED <<pc, cfg, overrides, early>>

\* Mutant: a switch says nothing about what is already set.
SwitchSettingIfUnset ==
  /\ ReadSwitch
  /\ switch.ok /\ ~FromConsole(switch)
  /\ \E o \in Options : <<switch.key, o>> \in Words(SwitchWords)
  /\ cfg' = Overlay(cfg, SwitchSays(switch))
  /\ UNCHANGED <<pc, overrides, early>>

SwitchSetting ==
  /\ ReadSwitch
  /\ switch.ok /\ ~FromConsole(switch)
  /\ \E o \in Options : <<switch.key, o>> \in Words(SwitchWords)
  /\ cfg' = Overlay(SwitchSays(switch), cfg)
  /\ UNCHANGED <<pc, overrides, early>>

\* /p:- is noted, for later.
SwitchConsole ==
  /\ ReadSwitch
  /\ switch.key = "p" /\ FromConsole(switch)
  /\ cfg' = Overlay(Only("ReadPwStdin", "1"), cfg)
  /\ UNCHANGED <<pc, overrides, early>>

\* /gp:- is asked for at once.
SwitchGatewayConsole ==
  /\ ReadSwitch
  /\ switch.key = "gp" /\ FromConsole(switch)
  /\ \E secret \in in.console : cfg' = Overlay(Only("Gateway.Password", secret), cfg)
  /\ UNCHANGED <<pc, overrides, early>>

SwitchOverride ==
  /\ ReadSwitch
  /\ switch.key = "set" /\ switch.ok
  /\ overrides' = Append(overrides, switch.split)
  /\ UNCHANGED <<pc, cfg, early>>

SwitchEarly ==
  /\ ReadSwitch
  /\ switch.key \in {"help", "version"}
  /\ early' = early \cup {switch.key}
  /\ UNCHANGED <<pc, cfg, overrides>>

\* A value that does not parse, a console that does not answer, a switch that is
\* not supported, and one that is not known, which a second file is.
SwitchRejected ==
  /\ ReadSwitch
  /\ \/ ~switch.ok
     \/ switch.key = "gp" /\ FromConsole(switch) /\ in.console = {}
     \/ /\ switch.key \notin {"set", "help", "version"} /\ ~IsFile(at)
        /\ \A o \in Options : <<switch.key, o>> \notin Words(SwitchWords)
  /\ pc' = "failed"
  /\ UNCHANGED <<cfg, overrides, early>>

EndSwitches ==
  /\ pc = "switches" /\ at > Len(in.args)
  /\ pc' = IF early # {} THEN "exit" ELSE "passwords"
  /\ UNCHANGED <<in, at, cfg, reading, overrides, early, applied>>

\* Mutant: the environment has the last word.
FromEnvironmentAlways ==
  {o \in {"Password"} : in.env # {} /\ ~Given(cfg, "ReadPwStdin")}
    \cup {o \in {"Gateway.Password"} : in.gatewayEnv # {}}

\* The options the environment supplies: passwords that are not set otherwise.
FromEnvironment ==
  {o \in {"Password"} : in.env # {} /\ ~Given(cfg, o) /\ ~Given(cfg, "ReadPwStdin")}
    \cup {o \in {"Gateway.Password"} : in.gatewayEnv # {} /\ ~Given(cfg, o)}

Filled ==
  Overlay([o \in FromEnvironment |->
             CHOOSE v \in (IF o = "Password" THEN in.env ELSE in.gatewayEnv) : TRUE], cfg)

\* A console that does not answer ends the program.
ReadPasswords ==
  /\ pc = "passwords"
  /\ \/ /\ ~Given(cfg, "ReadPwStdin")
        /\ cfg' = Filled /\ pc' = "validate"
     \/ /\ Given(cfg, "ReadPwStdin") /\ in.console = {}
        /\ cfg' = Filled /\ pc' = "failed"
     \/ /\ Given(cfg, "ReadPwStdin")
        /\ \E secret \in in.console : cfg' = Overlay(Only("Password", secret), Filled)
        /\ pc' = "validate"
  /\ UNCHANGED <<in, at, reading, overrides, early, applied>>

\* run: listing the classes comes before the check.
Validate ==
  /\ pc = "validate"
  /\ \/ Given(cfg, "ListClasses") /\ pc' = "exit" /\ cfg' = cfg
     \/ ~Given(cfg, "ListClasses") /\ Valid(cfg) /\ pc' = "apply" /\ cfg' = Derived(cfg)
     \/ ~Given(cfg, "ListClasses") /\ ~Valid(cfg) /\ pc' = "failed" /\ cfg' = cfg
  /\ at' = 1
  /\ UNCHANGED <<in, reading, overrides, early, applied>>

-----------------------------------------------------------------------------
(* Writing the configuration to the control (applySettings, applyGateway). *)

Set(option, paths) == [option |-> option, paths |-> paths]

\* The settings in the order they are written, with the names they may have.  The
\* options "GrabFocusOnConnect" and "EnableWindowsKey" are constants of the code.
Order == <<
  Set("Server", <<"Server">>),
  Set("Port", <<"advanced.RDPPort">>),
  Set("Username", <<"UserName">>),
  Set("Domain", <<"Domain">>),
  Set("Width", <<"DesktopWidth">>),
  Set("Height", <<"DesktopHeight">>),
  Set("ColorDepth", <<"ColorDepth">>),
  Set("GrabFocusOnConnect", <<"advanced.GrabFocusOnConnect">>),
  Set("EnableWindowsKey", <<"advanced.EnableWindowsKey">>),
  Set("ConnectionBar", <<"advanced.DisplayConnectionBar">>),
  Set("PinConnBar", <<"advanced.PinConnectionBar">>),
  Set("SmartSizing", <<"advanced.SmartSizing">>),
  Set("AuthLevel", <<"advanced.AuthenticationLevel">>),
  Set("EnableCredSSP", <<"advanced.EnableCredSspSupport">>),
  Set("NegotiateLayer", <<"advanced.NegotiateSecurityLayer">>),
  Set("AdminSession", <<"advanced.ConnectToAdministerServer", "advanced.ConnectToServerConsole">>),
  Set("RestrictedAdmin", <<"advanced.RestrictedLogon", "nonscriptable.RestrictedLogon",
                           "advanced.DisableCredentialsDelegation">>),
  Set("RemoteGuard", <<"advanced.RedirectedAuthentication", "nonscriptable.RedirectedAuthentication">>),
  Set("Public", <<"advanced.PublicMode", "nonscriptable.PublicMode">>),
  Set("RedirectDrives", <<"advanced.RedirectDrives">>),
  Set("RedirectPrinters", <<"advanced.RedirectPrinters">>),
  Set("RedirectPorts", <<"advanced.RedirectPorts">>),
  Set("RedirectSmartCards", <<"advanced.RedirectSmartCards">>),
  Set("RedirectClipboard", <<"advanced.RedirectClipboard">>),
  Set("RedirectPOS", <<"advanced.RedirectPOSDevices">>),
  Set("DrivesToRedirect", <<>>),   \* single drives cannot be chosen: a warning
  Set("AudioMode", <<"secured.AudioRedirectionMode", "advanced.AudioRedirectionMode">>),
  Set("AudioCaptureMode", <<"advanced.AudioCaptureRedirectionMode">>),
  Set("AudioQuality", <<"advanced.AudioQualityMode">>),
  Set("KeyboardHook", <<"secured.KeyboardHookMode">>),
  Set("Compression", <<"advanced.Compress">>),
  Set("PerformanceFlags", <<"advanced.PerformanceFlags">>),
  Set("AutoReconnect", <<"advanced.EnableAutoReconnect">>),
  Set("MaxReconnect", <<"advanced.MaxReconnectAttempts">>),
  Set("NetworkAutoDetect", <<"advanced.NetworkAutoDetect">>),
  Set("BandwidthDetect", <<"advanced.BandwidthDetection">>),
  Set("NetworkType", <<"advanced.NetworkConnectionType">>),
  Set("StartProgram", <<"secured.StartProgram">>),
  Set("WorkDir", <<"secured.WorkDir">>),
  Set("LoadBalanceInfo", <<"advanced.LoadBalanceInfo">>),
  Set("MultiMon", <<"nonscriptable.UseMultimon">>),
  Set("Span", <<"nonscriptable.SpanMonitors", "advanced.SpanMonitors">>),
  Set("Gateway.Hostname", <<"transport.GatewayHostname">>),
  Set("Gateway.UsageMethod", <<"transport.GatewayUsageMethod">>),
  Set("Gateway.ProfileUsage", <<"transport.GatewayProfileUsageMethod">>),
  Set("Gateway.CredsSource", <<"transport.GatewayCredsSource">>),
  Set("Gateway.Username", <<"transport.GatewayUsername">>),
  Set("Gateway.Domain", <<"transport.GatewayDomain">>),
  Set("Gateway.Password", <<"transport.GatewayPassword">>),
  Set("Gateway.CredsSharing", <<"transport.GatewayCredSharing">>),
  Set("Password", <<"advanced.ClearTextPassword", "nonscriptable.ClearTextPassword">>),
  Set("PromptForCreds", <<"nonscriptable.PromptForCredsOnClient", "nonscriptable.PromptForCredentials">>)
>>

\* No property has two names in the table, and the gateway's host comes before
\* the method that it completes.
ASSUME OrderAssumption ==
  \A m, n \in DOMAIN Order :
    /\ \A j \in DOMAIN Order[m].paths : \A k \in DOMAIN Order[n].paths :
         Order[m].paths[j] = Order[n].paths[k] => m = n /\ j = k
    /\ Order[m].option = "Gateway.Hostname" /\ Order[n].option = "Gateway.UsageMethod" => m < n

Always == {"Server", "Width", "Height", "GrabFocusOnConnect", "EnableWindowsKey"}

\* What the connection cannot do without.
Must == {"Server", "Width", "Height"}

Gateway ==
  {"Gateway.ProfileUsage", "Gateway.CredsSource", "Gateway.Username",
   "Gateway.Domain", "Gateway.Password", "Gateway.CredsSharing"}

GatewayInUse == Given(cfg, "Gateway.Hostname") \/ Given(cfg, "Gateway.UsageMethod")

Wanted(n) ==
  LET o == Order[n].option
  IN \/ o \in Always
     \/ o = "PromptForCreds" /\ ~Given(cfg, "Password")
     \/ /\ Given(cfg, o)
        /\ o \in Gateway => GatewayInUse
        /\ o = "DrivesToRedirect" => cfg[o] # "*"

Takes(path) == path \notin in.lacks \cup in.refuses

\* setAny: the first of the names the control takes the value under.
IsTaker(paths, k) == Takes(paths[k]) /\ \A j \in 1..(k - 1) : ~Takes(paths[j])

\* The next setting to write.
Due(n) ==
  /\ pc = "apply" /\ n \in DOMAIN Order
  /\ at <= n /\ Wanted(n)
  /\ \A m \in at..(n - 1) : ~Wanted(m)

\* A gateway host without a method means to use it always.
Completed(n) ==
  IF Order[n].option = "Gateway.Hostname" THEN Overlay(cfg, Only("Gateway.UsageMethod", "1")) ELSE cfg

Row(n) == [by |-> "setting", n |-> n]

\* Mutant: overrides counted from zero.
RawFromZero(n) == [by |-> "override", n |-> n - 1]

Raw(n) == [by |-> "override", n |-> n]

\* Mutant: a property that has been written is left alone.
PutOnce(path, who) == holds' = Overlay(holds, Only(path, who))

Put(path, who) == holds' = Overlay(Only(path, who), holds)

WriteSetting(n) ==
  /\ Due(n)
  /\ \E k \in DOMAIN Order[n].paths :
       /\ IsTaker(Order[n].paths, k)
       /\ Put(Order[n].paths[k], Row(n))
  /\ at' = n + 1
  /\ cfg' = Completed(n)
  /\ UNCHANGED <<in, pc, reading, overrides, early, warned, refused>>

NoTaker(n) == \A k \in DOMAIN Order[n].paths : ~Takes(Order[n].paths[k])

\* Mutant: a setting the control does not know is passed over.
WarnSettingIfRefused(n) ==
  /\ Due(n) /\ NoTaker(n)
  /\ Order[n].option \notin Must
  /\ warned' = IF \E k \in DOMAIN Order[n].paths : Order[n].paths[k] \in in.refuses
               THEN warned \cup {n} ELSE warned
  /\ at' = n + 1
  /\ cfg' = Completed(n)
  /\ UNCHANGED <<in, pc, reading, overrides, early, holds, refused>>

WarnSetting(n) ==
  /\ Due(n) /\ NoTaker(n)
  /\ Order[n].option \notin Must
  /\ warned' = warned \cup {n}
  /\ at' = n + 1
  /\ cfg' = Completed(n)
  /\ UNCHANGED <<in, pc, reading, overrides, early, holds, refused>>

FailSetting(n) ==
  /\ Due(n) /\ NoTaker(n)
  /\ Order[n].option \in Must
  /\ pc' = "failed"
  /\ UNCHANGED <<in, at, cfg, reading, overrides, early, applied>>

EndSettings ==
  /\ pc = "apply"
  /\ \A n \in DOMAIN Order : at <= n => ~Wanted(n)
  /\ pc' = "override" /\ at' = 1
  /\ UNCHANGED <<in, cfg, reading, overrides, early, applied>>

\* Does the control take override n?
TakesOverride(n) == overrides[n] \notin in.lacks /\ n \notin in.badOverrides

WriteOverride ==
  /\ pc = "override" /\ at <= Len(overrides)
  /\ IF TakesOverride(at)
     THEN Put(overrides[at], Raw(at)) /\ refused' = refused
     ELSE refused' = refused \cup {at} /\ holds' = holds
  /\ at' = at + 1
  /\ UNCHANGED <<in, pc, cfg, reading, overrides, early, warned>>

EndOverrides ==
  /\ pc = "override" /\ at > Len(overrides)
  /\ pc' = "done"
  /\ UNCHANGED <<in, at, cfg, reading, overrides, early, applied>>

-----------------------------------------------------------------------------
Read ==
  \/ FindFile
  \/ ReadSetting \/ ReadPrompt \/ ReadScreenMode \/ ReadPerformance \/ SkipLine \/ EndFile
  \/ SkipFile \/ SwitchSetting \/ SwitchConsole \/ SwitchGatewayConsole \/ SwitchOverride
  \/ SwitchEarly \/ SwitchRejected \/ EndSwitches
  \/ ReadPasswords \/ Validate

Apply ==
  \/ \E n \in DOMAIN Order : WriteSetting(n) \/ WarnSetting(n) \/ FailSetting(n)
  \/ EndSettings \/ WriteOverride \/ EndOverrides

Stopped == pc \in {"done", "failed", "exit"} /\ UNCHANGED vars

Next == Read \/ Apply \/ Stopped

Spec == Init /\ [][Next]_vars

-----------------------------------------------------------------------------
(* Properties.                                                             *)

Steps == {"start", "file", "switches", "passwords", "validate", "apply", "override",
          "done", "failed", "exit"}

\* Every variable keeps its type.
TypeOK ==
  /\ pc \in Steps
  /\ at \in Nat \ {0}
  /\ DOMAIN cfg \subseteq Options
  /\ overrides \in Seq(STRING)
  /\ perf \subseteq Bits /\ perfSeen \in BOOLEAN
  /\ early \subseteq {"help", "version"}
  /\ \A p \in DOMAIN holds :
       holds[p] \in [by : {"setting"}, n : DOMAIN Order]
                     \cup [by : {"override"}, n : DOMAIN overrides]
  /\ warned \subseteq DOMAIN Order
  /\ refused \subseteq DOMAIN overrides

\* "switches then override individual settings from it" (README, line 78): what
\* is in force is what the last switch that mentions an option says, wherever the
\* file stands among the arguments and whatever it says.  Passwords follow
\* PasswordOrigin, and an empty title is made up again.
SwitchesWin ==
  pc = "done" =>
    \A k \in DOMAIN in.args :
      \A o \in DOMAIN SwitchSays(in.args[k]) \ {"Password", "Gateway.Password", "Title"} :
        (\A j \in DOMAIN in.args : k < j => o \notin DOMAIN SwitchSays(in.args[j]))
          => cfg[o] = SwitchSays(in.args[k])[o]

\* The lines of the file that give an address under this key.
Addresses(key) == {k \in DOMAIN in.file : in.file[k].key = key /\ in.file[k].ok}

\* The full address is the server whatever the order of the lines, the last if
\* there are several; the alternate one, the first if there are several, only
\* where there is no other (rdpfile.go, lines 144-153).  The host of an address
\* may be empty, as in ":3390".
FullAddressWins ==
  pc = "switches" /\ at = 1 /\ HasFile =>
    LET full == Addresses("full address")
        alternate == {k \in Addresses("alternate full address") : in.file[k].val # ""}
    IN /\ \A k \in full :
            in.file[k].val # "" /\ (\A j \in full : j <= k) => cfg["Server"] = in.file[k].val
       /\ \A k \in alternate :
            full = {} /\ (\A j \in alternate : k <= j) => cfg["Server"] = in.file[k].val

\* Does the line of the file speak of the bit, on its own or with the others?
Mentions(k, b) ==
  in.file[k].ok /\ (in.file[k].key = "performanceflags" \/ <<in.file[k].key, b>> \in LineBit)

TurnsOn(k, b) ==
  IF in.file[k].key = "performanceflags" THEN b \in BitsOf[in.file[k].val]
  ELSE Flag(in.file[k].val) = "1"

\* Each performance flag is what the last line that speaks of it says, be it the
\* number or the spelled-out form (rdpfile.go, lines 12-14).
FlagsAsSpelled ==
  pc = "switches" /\ at = 1 /\ HasFile =>
    \A k \in DOMAIN in.file : \A b \in Bits :
      Mentions(k, b) /\ (\A j \in DOMAIN in.file : k < j => ~Mentions(j, b))
        => (b \in cfg["PerformanceFlags"] <=> TurnsOn(k, b))

\* A password comes from the console if one is asked for there, else from the
\* last /p, else from the file, else from the environment, and from nowhere else;
\* the gateway's from the last /gp, else from the environment (cli.go, lines
\* 358-375): a password nobody meant is never sent.
PasswordOrigin ==
  pc = "done" =>
    LET typed == {k \in DOMAIN in.args : in.args[k].key = "p"}
        gateway == {k \in DOMAIN in.args : in.args[k].key = "gp"}
        stored == IF HasFile THEN {k \in DOMAIN in.file : in.file[k].key = "password 51" /\ in.file[k].ok}
                  ELSE {}
        Last(S) == CHOOSE k \in S : \A j \in S : j <= k
        password == IF \E k \in typed : FromConsole(in.args[k]) THEN in.console
                    ELSE IF typed # {} THEN {in.args[Last(typed)].val}
                    ELSE IF stored # {} THEN {in.file[Last(stored)].val}
                    ELSE in.env
        gatewayPassword == IF gateway = {} THEN in.gatewayEnv
                           ELSE IF FromConsole(in.args[Last(gateway)]) THEN in.console
                           ELSE {in.args[Last(gateway)].val}
    IN /\ password = {} <=> "Password" \notin DOMAIN cfg
       /\ password # {} => cfg["Password"] \in password
       /\ gatewayPassword = {} <=> "Gateway.Password" \notin DOMAIN cfg
       /\ gatewayPassword # {} => cfg["Gateway.Password"] \in gatewayPassword

\* The control holds the setting under one of its names, or did until the user
\* wrote that property himself.
Written(n) ==
  \E k \in DOMAIN Order[n].paths :
    LET p == Order[n].paths[k]
    IN p \in DOMAIN holds /\ (holds[p] = Row(n) \/ holds[p].by = "override")

\* A setting the control does not take "produces a warning naming the setting,
\* not a failure" (README, lines 45-46): once the settings are applied, each one
\* that was asked for is held by the control, or has been warned about.
WrittenOrWarned ==
  pc = "done" => \A n \in DOMAIN Order : Wanted(n) => Written(n) \/ n \in warned

\* "Raw overrides come last so they win over everything above" (apply.go, line
\* 218), the last one for a path over the earlier ones; only a warning excuses.
OverridesWin ==
  pc = "done" =>
    \A n \in DOMAIN overrides :
      \/ n \in refused
      \/ \E m \in DOMAIN overrides :
           /\ n <= m /\ overrides[m] = overrides[n]
           /\ overrides[n] \in DOMAIN holds /\ holds[overrides[n]] = Raw(m)
=============================================================================

------------------------------- MODULE Config -------------------------------
(***************************************************************************)
(* The options of one connection (config.go) and what a line of a .rdp     *)
(* file (rdpfile.go) or a switch (cli.go) says about them.                 *)
(*                                                                         *)
(* A configuration is a function on the options that have been mentioned.  *)
(* Texts and numbers are opaque: numbers are the strings that spell them,  *)
(* "0" being the one the code treats on its own, and which of them are out *)
(* of range is a constant.  A line is a key, a value, what is split off    *)
(* the value where the code splits it (the port of an address, the domain  *)
(* of DOMAIN\user, the path of an override), and whether it parses.        *)
(***************************************************************************)
CONSTANT OutOfRange   \* the <<option, value>> that Validate does not accept

Texts ==
  {"Server", "Username", "Domain", "StartProgram", "WorkDir", "LoadBalanceInfo",
   "DrivesToRedirect", "Title", "CoclassName", "Gateway.Hostname",
   "Gateway.Username", "Gateway.Domain"}

Numbers == {"Port", "Width", "Height", "ColorDepth", "Scale", "DeviceScale", "LogLevel"}

Booleans ==
  {"FullScreen", "Span", "MultiMon", "DynamicResize", "AdminSession",
   "RestrictedAdmin", "RemoteGuard", "Public", "PromptForCreds", "ListClasses",
   "Timestamps", "ReadPwStdin"}

\* nil when not mentioned; a password is nil when PasswordSet is false.
Pointers ==
  {"SmartSizing", "ConnectionBar", "PinConnBar", "AuthLevel", "EnableCredSSP",
   "NegotiateLayer", "RedirectDrives", "RedirectPrinters", "RedirectClipboard",
   "RedirectPorts", "RedirectSmartCards", "RedirectPOS", "AudioMode",
   "AudioCaptureMode", "AudioQuality", "KeyboardHook", "Compression",
   "PerformanceFlags", "AutoReconnect", "MaxReconnect", "NetworkAutoDetect",
   "BandwidthDetect", "NetworkType", "Gateway.UsageMethod", "Gateway.CredsSource",
   "Gateway.ProfileUsage", "Gateway.CredsSharing", "Password", "Gateway.Password"}

Options == Texts \cup Numbers \cup Booleans \cup Pointers

NewConfig == [o \in {"DynamicResize"} |-> "1"]

\* Is the option set: not nil, and not the zero value of its type?
Given(c, o) ==
  /\ o \in DOMAIN c
  /\ o \in Texts => c[o] # ""
  /\ o \in Numbers \cup Booleans => c[o] # "0"

\* What c says where new says nothing.
Overlay(new, c) ==
  [o \in DOMAIN new \cup DOMAIN c |-> IF o \in DOMAIN new THEN new[o] ELSE c[o]]

Nothing == [o \in {} |-> ""]

Only(o, v) == [x \in {o} |-> v]

Flag(v) == IF v = "0" THEN "0" ELSE "1"

-----------------------------------------------------------------------------
(* The vocabulary of a .rdp file and of the command line, as pairs of a     *)
(* key and the option it sets: to its value, to its value read as a flag,   *)
(* to what is split off, or on or off as such.                              *)

FileWords ==
  [value |->
     {<<"full address", "Server">>, <<"alternate full address", "Server">>,
      <<"server port", "Port">>, <<"username", "Username">>,
      <<"domain", "Domain">>, <<"password 51", "Password">>,
      <<"desktopwidth", "Width">>, <<"desktopheight", "Height">>,
      <<"session bpp", "ColorDepth">>, <<"desktopscalefactor", "Scale">>,
      <<"devicescalefactor", "DeviceScale">>, <<"audiomode", "AudioMode">>,
      <<"audiocapturemode", "AudioCaptureMode">>,
      <<"audioqualitymode", "AudioQuality">>, <<"keyboardhook", "KeyboardHook">>,
      <<"authentication level", "AuthLevel">>,
      <<"autoreconnect max retries", "MaxReconnect">>,
      <<"connection type", "NetworkType">>, <<"alternate shell", "StartProgram">>,
      <<"shell working directory", "WorkDir">>,
      <<"loadbalanceinfo", "LoadBalanceInfo">>,
      <<"drivestoredirect", "DrivesToRedirect">>,
      <<"gatewayhostname", "Gateway.Hostname">>,
      <<"gatewayusagemethod", "Gateway.UsageMethod">>,
      <<"gatewaycredentialssource", "Gateway.CredsSource">>,
      <<"gatewayprofileusagemethod", "Gateway.ProfileUsage">>,
      <<"gatewayusername", "Gateway.Username">>, <<"gatewaydomain", "Gateway.Domain">>},
   flag |->
     {<<"use multimon", "MultiMon">>, <<"span monitors", "Span">>,
      <<"smart sizing", "SmartSizing">>, <<"dynamic resolution", "DynamicResize">>,
      <<"displayconnectionbar", "ConnectionBar">>, <<"pinconnectionbar", "PinConnBar">>,
      <<"compression", "Compression">>, <<"redirectclipboard", "RedirectClipboard">>,
      <<"redirectprinters", "RedirectPrinters">>, <<"redirectcomports", "RedirectPorts">>,
      <<"redirectsmartcards", "RedirectSmartCards">>,
      <<"redirectposdevices", "RedirectPOS">>, <<"redirectdrives", "RedirectDrives">>,
      <<"enablecredsspsupport", "EnableCredSSP">>,
      <<"negotiate security layer", "NegotiateLayer">>,
      <<"administrative session", "AdminSession">>,
      <<"restricted admin mode", "RestrictedAdmin">>,
      <<"remotecredentialguard", "RemoteGuard">>,
      <<"autoreconnection enabled", "AutoReconnect">>,
      <<"networkautodetect", "NetworkAutoDetect">>,
      <<"bandwidthautodetect", "BandwidthDetect">>,
      <<"promptcredentialonce", "Gateway.CredsSharing">>},
   split |-> {<<"full address", "Port">>, <<"alternate full address", "Port">>},
   on |-> {}, off |-> {}]

SwitchWords ==
  [value |->
     {<<"v", "Server">>, <<"port", "Port">>, <<"u", "Username">>, <<"d", "Domain">>,
      <<"p", "Password">>, <<"w", "Width">>, <<"h", "Height">>,
      <<"bpp", "ColorDepth">>, <<"scale", "Scale">>, <<"devicescale", "DeviceScale">>,
      <<"title", "Title">>, <<"shell", "StartProgram">>, <<"workdir", "WorkDir">>,
      <<"audio", "AudioMode">>, <<"g", "Gateway.Hostname">>,
      <<"gu", "Gateway.Username">>, <<"gd", "Gateway.Domain">>,
      <<"gp", "Gateway.Password">>, <<"coclass", "CoclassName">>, <<"log", "LogLevel">>},
   flag |->
     {<<"smartsizing", "SmartSizing">>, <<"conbar", "ConnectionBar">>,
      <<"drives", "RedirectDrives">>, <<"clipboard", "RedirectClipboard">>,
      <<"printers", "RedirectPrinters">>, <<"ports", "RedirectPorts">>,
      <<"smartcards", "RedirectSmartCards">>},
   split |-> {<<"v", "Port">>, <<"u", "Domain">>, <<"gu", "Gateway.Domain">>},
   on |->
     {<<"prompt", "PromptForCreds">>, <<"f", "FullScreen">>, <<"span", "Span">>,
      <<"multimon", "MultiMon">>, <<"admin", "AdminSession">>, <<"public", "Public">>,
      <<"restrictedadmin", "RestrictedAdmin">>, <<"remoteguard", "RemoteGuard">>,
      <<"list-classes", "ListClasses">>, <<"timestamps", "Timestamps">>},
   off |-> {<<"noresize", "DynamicResize">>}]

Words(W) == W.value \cup W.flag \cup W.on \cup W.off

\* The options a line mentions, with the values it gives them.
Says(l, W) ==
  [o \in {x \in Options : \/ <<l.key, x>> \in Words(W)
                          \/ <<l.key, x>> \in W.split /\ l.split # ""} |->
     IF <<l.key, o>> \in W.value THEN l.val
     ELSE IF <<l.key, o>> \in W.flag THEN Flag(l.val)
     ELSE IF <<l.key, o>> \in W.split THEN l.split
     ELSE IF <<l.key, o>> \in W.on THEN "1" ELSE "0"]

\* Choosing drives redirects drives.
FileSays(l) ==
  Overlay([o \in {x \in {"RedirectDrives"} : l.key = "drivestoredirect" /\ l.val # ""} |-> "1"],
          Says(l, FileWords))

\* A password of "-" is asked for on the console.
FromConsole(l) == l.key \in {"p", "gp"} /\ l.val = "-"

SwitchSays(l) == IF FromConsole(l) THEN Nothing ELSE Says(l, SwitchWords)

-----------------------------------------------------------------------------
(* Validate.                                                               *)

Valid(c) ==
  /\ Given(c, "Server")
  /\ \A o \in Numbers \cap DOMAIN c : <<o, c[o]>> \notin OutOfRange
  /\ ~(Given(c, "MultiMon") /\ Given(c, "Span"))

\* Both multiple-monitor modes imply full screen; a title is made up.
Derived(c) ==
  Overlay([o \in {x \in {"FullScreen"} : Given(c, "MultiMon") \/ Given(c, "Span")}
                   \cup {x \in {"Title"} : ~Given(c, "Title")} |->
             IF o = "Title" THEN c["Server"] ELSE "1"], c)
=============================================================================

----------------------------- MODULE MCSettings -----------------------------
(* Starts of the program, by subject: the address, the password, the full   *)
(* screen and the performance flags, what the control takes, and the ways   *)
(* to stop early.  Files have up to three lines, command lines up to three  *)
(* switches.                                                                *)
EXTENDS Settings

Line(key, val) == [key |-> key, val |-> val, split |-> "", ok |-> TRUE]
Split(key, val, split) == [Line(key, val) EXCEPT !.split = split]
Bad(key) == [Line(key, "bad") EXCEPT !.ok = FALSE]

File == Line(".rdp", "")
Host == Split("v", "a", "")

UpTo(n, S) == UNION {[1..m -> S] : m \in 0..n}

Start(args, file) ==
  [args |-> args, file |-> file, readable |-> TRUE, env |-> {}, gatewayEnv |-> {},
   console |-> {"typed"}, lacks |-> {}, refuses |-> {}, badOverrides |-> {}]

\* The order of the address lines, a port said in four ways, the file before and
\* after the switches.
AddressFiles ==
  UpTo(3, {Split("full address", "b", ""), Split("full address", "b", "3390"),
           Bad("full address"), Split("full address", "", "3390"),
           Split("alternate full address", "c", ""),
           Split("alternate full address", "d", "3391"),
           Line("server port", "0"), Line("server port", "70000")})

AddressArgs ==
  {<<File>>, <<Host, File>>, <<File, Line("port", "3393"), Line("v", "e")>>, <<Bad("v"), File>>}

AddressInputs == {Start(args, file) : args \in AddressArgs, file \in AddressFiles}

\* Every source of a password.
PasswordFiles ==
  UpTo(2, {Line("password 51", "stored"), Bad("password 51"),
           Line("prompt for credentials", "1"), Line("prompt for credentials", "0")})

PasswordArgs ==
  {<<Host, File, Line("g", "g")>> \o more :
     more \in UpTo(2, {Line("p", "x"), Line("p", "-"), Line("prompt", ""),
                       Line("gp", "y"), Line("gp", "-")})}

PasswordInputs ==
  {[Start(args, file) EXCEPT !.env = e, !.gatewayEnv = e, !.console = c[1], !.lacks = c[2]] :
     args \in PasswordArgs, file \in PasswordFiles, e \in {{}, {"env"}},
     c \in {<<{}, {"advanced.ClearTextPassword", "nonscriptable.PromptForCredsOnClient"}>>,
            <<{"typed"}, {}>>}}

\* Full screen from three sides, and the flags in every order.
MCBits == {"Wallpaper", "Theming"}
MCLineBit == {<<"disable wallpaper", "Wallpaper">>, <<"disable themes", "Theming">>}
MCBitsOf == [v \in {"0", "1", "9"} |-> IF v = "0" THEN {} ELSE IF v = "1" THEN {"Wallpaper"} ELSE MCBits]

DisplayFiles ==
  UpTo(3, {Line("screen mode id", "1"), Line("screen mode id", "2"),
           Line("use multimon", "1"),
           Line("performanceflags", "1"), Line("disable wallpaper", "0"),
           Line("disable themes", "1"), Bad("performanceflags")})

DisplayInputs ==
  {Start(args \o <<File, Host>>, file) :
     file \in DisplayFiles,
     args \in {<<>>, <<Line("f", "")>>, <<Line("span", "")>>, <<Line("multimon", "")>>}}

\* Settings with one name and with several on controls that lack some of them and
\* refuse others, and overrides of the same properties.
SettingFiles ==
  {<<Line("drivestoredirect", d), Line("administrative session", "1"), Line("audiomode", "2")>> :
     d \in {"", "*", "C:"}}
  \cup {<<Line("redirectdrives", "1"), Line("gatewayusagemethod", "2"), Line("winposstr", "x")>>}

SettingArgs ==
  {<<File, Host>> \o more :
     more \in UpTo(3, {Line("drives", "0"), Line("restrictedadmin", ""),
                       Split("g", "g", ""), Split("gu", "u", "dom"),
                       Split("set", "1", "advanced.RedirectDrives"),
                       Split("set", "0", "advanced.RedirectDrives"),
                       Split("set", "x", "advanced.RestrictedLogon")})}

SettingInputs ==
  {[Start(args, file) EXCEPT !.lacks = c[1], !.refuses = c[2], !.badOverrides = c[3]] :
     args \in SettingArgs, file \in SettingFiles,
     c \in {<<{}, {}, {}>>,
            <<{"advanced.RestrictedLogon", "secured.AudioRedirectionMode"},
              {"transport.GatewayHostname"}, {1}>>,
            <<{"nonscriptable.RestrictedLogon", "advanced.ConnectToAdministerServer"},
              {"advanced.RestrictedLogon", "advanced.RedirectDrives"}, {2}>>}}

\* Starts that end before, or in, the writing.
Other ==
  {[Start(<<File, Host>>, <<>>) EXCEPT !.readable = FALSE],
   [Start(<<File, Host>>, <<>>) EXCEPT !.lacks = {"Server"}],
   [Start(<<File, Host>>, <<>>) EXCEPT !.refuses = {"DesktopHeight"}]}
  \cup {Start(args, <<>>) :
          args \in UpTo(2, {File, Host, Line("help", ""), Line("version", ""),
                            Line("list-classes", ""), Line("edit", ""), Line("p", "-")})}

MCInputs == AddressInputs \cup PasswordInputs \cup DisplayInputs \cup SettingInputs \cup Other

MCOutOfRange == {<<"Port", "70000">>}
=============================================================================

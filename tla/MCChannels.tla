----------------------------- MODULE MCChannels -----------------------------
(***************************************************************************)
(* Short labels stand for those of libcwd: three characters wide to begin   *)
(* with, WAR for WARNING and EL for ELFUTILS.                               *)
(***************************************************************************)
EXTENDS Channels

MCAlphabet == <<" ", "A", "C", "E", "F", "L", "N", "O", "R", "T", "W">>
MCWarningLabel == <<"W", "A", "R">>
MCLabelOf ==
  [dc_warning |-> MCWarningLabel, dc_elfutils |-> <<"E", "L">>, dc_rcfile |-> <<"R", "C">>,
   notice |-> <<"N", "O", "T", "E">>, foo |-> <<"F", "O", "O">>, fo |-> <<"F", "O">>,
   dc_fatal |-> <<"F", "A", "T", "A", "L">>,
   late |-> <<"F", "O", "N">>, later |-> <<"L", "A", "T", "E", "R", "E">>]
MCChannels == DOMAIN MCLabelOf \ {"dc_fatal"}
MCFatalChannels == {"dc_fatal"}
MCBeforeMain == MCChannels \ {"late", "later"}
MCThreads == {"main", "worker"}
MCAbbreviations == {<<>>, <<"F">>, <<"F", "O">>, <<"N">>, <<"R">>, <<"F", "O", "O", "L">>}
MCOffBefore == {"dc_warning", "foo"}

Line(keyword, value) == [keyword |-> keyword, value |-> value]
Default(value) == Line("channels_default", value)
Lists(keywords, masks) == {Line(keyword, m) : keyword \in keywords, m \in masks}
Masks == {<<<<"*">>>>, <<<<"F", "*">>>>, <<<<"*", "O">>, <<"F", "O", "O">>>>, <<<<"E", "L">>>>,
          <<<<"*", "O", "*">>, <<"*", "*", "T", "E">>>>, <<<<"W", "*", "R">>, <<"E", "*", "L", "*">>>>}
Some == {<<<<"F", "*">>, <<"E", "L">>>>, <<<<"W", "A", "R">>>>}
Changes == {"channels_on", "channels_off", "channels_toggle"}
Others == {Line("silent", "on"), Line("silent", "off"), Line("unknown", ""), Line("syntax error", ""),
           Default("on"), Default("off"), Default("maybe")}

OneLine == {<<change>> : change \in Lists(Changes, Masks) \cup Others}
TwoLines == {<<Default(value), change>> : value \in {"on", "off"}, change \in Lists(Changes, Masks) \cup Others}
ThreeLines == {<<Default("on"), change, another>> : change, another \in Lists(Changes, Some)}
SilentLines == {<<Line("silent", a), Default("off"), Line("silent", b), Line("channels_on", m)>> :
                  a, b \in {"on", "off"}, m \in Some}
\* The override file adds to, or takes from, what the other one turned on; it may
\* start anew, once, and it may have a default of its own.
Bases == {<<>>, <<Default("on")>>, <<Default("off")>>, <<Line("channels_on", <<<<"F", "*">>>>)>>}
Overrides ==
  {<<base, <<change, another>>>> :
     base \in Bases, change \in Lists(Changes, Some) \cup {Default("on"), Default("off")},
     another \in Lists({"channels_on", "channels_off"}, {<<<<"F", "*">>, <<"E", "L">>>>})}
  \cup {<<base, <<change>>>> : base \in Bases, change \in Lists({"channels_on"}, Masks)}
  \cup {<<<<Default(value), Line("channels_off", m)>>, <<Line("channels_off", n), Line("channels_off", m)>>>> :
          value \in {"on", "off"}, m, n \in Some}
MCConfigurations == {<<file>> : file \in OneLine \cup TwoLines \cup ThreeLines \cup SilentLines} \cup Overrides
\* An override file that turns channels on, after each default.
ManualConfigurations ==
  {<<<<Default(value), Line("channels_on", m)>>, <<Line("channels_on", n)>>>> :
     value \in {"on", "off"}, m, n \in Some}
\* For the threads it is enough that some channels are on.
FewConfigurations == {<<<<Default("on"), Line("channels_off", m)>>>> : m \in Some}
=============================================================================

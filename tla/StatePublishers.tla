---------------------------- MODULE StatePublishers ----------------------------
(* A publisher of the device's state, its channels in the early-event store and *)
(* a client: the app ticks the publisher, which samples the device and          *)
(* publishes what changed since it published last; a native observer may        *)
(* publish on the same channels; clients read the value or follow the stream.   *)
(* One plugin on one platform at a time. Encoding these types does not fail.    *)
EXTENDS DeviceSamples

CONSTANTS
  MaxReadings,  \* readings the device goes through
  MaxNative     \* values a native observer publishes

\* The subtags of the tags that are read.
Subtags ==
  [text : {"en", "es", "us", "mx", "latn", "x", "001"}, kind : {"alpha1", "alpha2", "alpha4", "digit3"},
   case : {"lower", "upper", "title"}]

StatePublishersAssumption ==
  MaxReadings \in Nat \ {0} /\ MaxNative \in Nat /\ None \notin Subtags

VARIABLES
  os, plugin,   \* what runs here
  samples,      \* the device's readings, each as what is sampled from it: channel -> value
  now,          \* the reading of the moment
  alive,        \* the runtime has not been dropped
  installed,    \* there is a publisher
  todo,         \* channels the running tick still compares, in order
  of,           \* the reading this tick has sampled
  last,         \* channel -> the reading published last by the publisher, 0 for none
  emitted,      \* a publisher that publishes once has done so
  slot,         \* channel -> [by, at]: whose value is retained, and of which reading
  natives,      \* values published by the native observer
  enriched,     \* the native observer published after the publisher
  stream        \* the client's stream: its channel, what waits and what it received, or None

device == <<os, plugin, samples>>
tickVars == <<todo, of, last, emitted>>
vars == <<device, now, alive, installed, tickVars, slot, natives, enriched, stream>>
-----------------------------------------------------------------------------
(* The clients: the channels of each plugin, and what a client makes of an      *)
(* empty slot.                                                                  *)

Client(channels) == [channels |-> channels, without |-> None]
BatteryStateClient == Client(<<"battery">>)
NetworkStateClient == Client(<<"network">>)
ThemePreferenceClient == Client(<<"theme">>)
StorageInfoClient == Client(<<"storage">>)
SystemInfo == Client(<<"locale", "timezone", "formats">>)
AppLifecycle == Client(<<"lifecycle">>)
CapabilitiesClient ==
  [Client(<<"capabilities">>) EXCEPT !.without = [f \in Flags |-> FALSE]]
DeviceInfoClient == [Client(<<"device">>) EXCEPT !.without = rust_fallback(os)]
SafeAreaClient ==
  [Client(<<"safe_area">>) EXCEPT !.without = [system_bars |-> 0, ime |-> 0, display_cutout |-> 0]]

Clients ==
  [battery |-> BatteryStateClient, network |-> NetworkStateClient, theme |-> ThemePreferenceClient,
   storage |-> StorageInfoClient, system |-> SystemInfo, lifecycle |-> AppLifecycle,
   capabilities |-> CapabilitiesClient, device |-> DeviceInfoClient, safe_area |-> SafeAreaClient]

Channels == {Clients[plugin].channels[i] : i \in DOMAIN Clients[plugin].channels}

(* The publishers: all sample, compare and publish in the same way, two of them *)
(* until they have published; the lifecycle is the platform's alone.            *)
BatteryStatePublisher == [once |-> FALSE]
NetworkStatePublisher == [once |-> FALSE]
ThemePreferencePublisher == [once |-> FALSE]
StorageInfoPublisher == [once |-> FALSE]
SystemInfoPublisher == [once |-> FALSE]
SafeAreaPublisher == [once |-> FALSE]
CapabilitiesPublisher == [once |-> TRUE]
DeviceInfoPublisher == [once |-> TRUE]

Publishers ==
  [battery |-> BatteryStatePublisher, network |-> NetworkStatePublisher, theme |-> ThemePreferencePublisher,
   storage |-> StorageInfoPublisher, system |-> SystemInfoPublisher, safe_area |-> SafeAreaPublisher,
   capabilities |-> CapabilitiesPublisher, device |-> DeviceInfoPublisher]

PublishesOnce == plugin \in DOMAIN Publishers /\ Publishers[plugin].once

\* en-US, where the platform names no locale.
DefaultTag == <<[text |-> "en", kind |-> "alpha2", case |-> "lower"],
                [text |-> "us", kind |-> "alpha2", case |-> "upper"]>>

\* What a tick publishes on a channel for a reading, None for nothing.
sample(c, r) ==
  CASE plugin = "battery" -> Battery(os, r)
    [] plugin = "network" -> Network(os, r)
    [] plugin = "theme" -> Theme(os, r)
    [] plugin = "storage" -> Storage(os, r)
    [] plugin = "system" -> LET s == System(os, r, DefaultTag) IN IF s = None THEN None ELSE s[c]
    [] plugin = "device" -> enrich(os, rust_fallback(os), r)
    [] plugin = "capabilities" -> Capabilities(os, r)
    [] plugin = "safe_area" -> SafeArea(os, r)
    [] plugin = "lifecycle" -> None

\* The value behind a retained or received item, and what a client is given.
value(c, x) == IF x.by = "rust" THEN samples[x.at][c] ELSE x
current(c) == IF slot[c].by = "nobody" THEN Clients[plugin].without ELSE value(c, slot[c])
-----------------------------------------------------------------------------
(* The readings a device may go through. *)

Sub(t, k, c) == [text |-> t, kind |-> k, case |-> c]
SpanishMexico == <<Sub("es", "alpha2", "upper"), Sub("latn", "alpha4", "lower"), Sub("mx", "alpha2", "upper")>>
EnglishWorld ==
  <<Sub("en", "alpha2", "lower"), Sub("x", "alpha1", "lower"), Sub("001", "digit3", "lower"),
    Sub("us", "alpha2", "upper")>>
Env(tag) == <<[form |-> "empty"], [form |-> "C"], [form |-> "tag", tag |-> tag], None>>
Bat(c, s) == [type |-> "Battery", capacity |-> c, status |-> s]
Sup(t, o) == [type |-> t, online |-> o]
Line(i) == [short |-> FALSE, default |-> TRUE, up |-> TRUE, iface |-> i]
Iface(n, w, t) == [name |-> n, wireless |-> w, type |-> t]

BatteryReadings ==
  CASE os = "linux" ->
         {<<>>, <<Bat(50, "Discharging"), Sup("Mains", FALSE)>>, <<Sup("USB_C", TRUE), Bat(104, "Full")>>,
          <<Bat(None, "odd")>>}
    [] os = "windows" ->
         {None, [percent |-> 50, flag |-> 8, line |-> 1, saver |-> FALSE],
          [percent |-> 255, flag |-> 128, line |-> 1, saver |-> FALSE],
          [percent |-> 50, flag |-> 0, line |-> 0, saver |-> TRUE]}
    [] OTHER -> {None}

NetworkReadings ==
  CASE os = "linux" ->
         {<<>>, <<[short |-> TRUE], Line(Iface("eth", FALSE, 1))>>, <<Line(Iface("eth", FALSE, 1))>>,
          <<[Line(None) EXCEPT !.up = FALSE], Line(Iface("wlan", TRUE, 1))>>, <<Line(Iface("wwan", FALSE, 519))>>,
          <<Line(Iface("tun", FALSE, 65534))>>}
    [] os = "windows" ->
         {None, <<[up |-> FALSE, link |-> "Wifi"], [up |-> TRUE, link |-> "Other"]>>,
          <<[up |-> TRUE, link |-> "Ethernet"], [up |-> TRUE, link |-> "Vpn"], [up |-> TRUE, link |-> "Wifi"]>>}
    [] OTHER -> {None}

ThemeReadings ==
  CASE os = "linux" ->
         {[scheme |-> s, gtk |-> "dark"] : s \in {None, "prefer-dark", "prefer-light", "default"}}
    [] os = "macos" -> {[style |-> s] : s \in {None, "dark"}}
    [] os = "windows" -> {[light |-> l] : l \in {None, 0, 1}}
    [] OTHER -> {None}

StorageReadings ==
  IF os = "windows"
  THEN {None, [free_available |-> 1, total |-> 4], [free_available |-> 2, total |-> 4]}
  ELSE {None, [bavail |-> 1, blocks |-> 4, frsize |-> 2], [bavail |-> 2, blocks |-> 4, frsize |-> 2]}

SystemReadings ==
  CASE os = "linux" ->
         {[env |-> Env(SpanishMexico), tz |-> None, localtime |-> "Europe/Paris"],
          [env |-> Env(EnglishWorld), tz |-> "", localtime |-> "Europe/Paris"],
          [env |-> <<[form |-> "C"]>>, tz |-> "Europe/Paris", localtime |-> None]}
    [] os \in {"macos", "ios"} ->
         {[tag |-> t, metric |-> FALSE, currency |-> None, decimal |-> ".", group |-> None,
           tz |-> [name |-> "Europe/Paris", seconds |-> 3600, dst |-> FALSE],
           calendar |-> [first |-> 2, id |-> "islamic-civil"]] : t \in {None, SpanishMexico}}
    [] os = "windows" ->
         {[name |-> t, time |-> "h", first |-> 6, symbol |-> "", decimal |-> ".", thousand |-> None,
           zone |-> [key |-> "W. Europe", kind |-> 2, bias |-> -60, daylight |-> -60, standard |-> 0]]
            : t \in {None, EnglishWorld}}
    [] OTHER -> {None}

Readings ==
  CASE plugin = "battery" -> BatteryReadings
    [] plugin = "network" -> NetworkReadings
    [] plugin = "theme" -> ThemeReadings
    [] plugin = "storage" -> StorageReadings
    [] plugin = "system" -> SystemReadings
    [] plugin = "device" -> {[ram |-> 8, version |-> v] : v \in {None, "6.9"}}
    [] plugin = "capabilities" ->
         {[fprintd |-> f, dev |-> {"video0"}, adapters |-> {}, asound |-> {"cards"}] : f \in BOOLEAN}
    [] plugin = "safe_area" -> {None, 10, 20}
    [] OTHER -> {None}

Platforms ==
  [battery |-> {"linux", "windows", "macos"}, network |-> {"linux", "windows", "macos"},
   theme |-> {"linux", "macos", "windows"}, storage |-> {"linux", "macos", "windows"},
   system |-> {"linux", "macos", "ios", "windows"}, lifecycle |-> {"android", "ios"},
   capabilities |-> {"linux", "windows"}, device |-> {"linux", "macos", "windows"},
   safe_area |-> {"ios", "linux"}]
-----------------------------------------------------------------------------
Init ==
  /\ plugin \in DOMAIN Platforms /\ os \in Platforms[plugin]
  \* The device changes, and changes back.
  /\ \E one \in Readings : \E two \in IF Readings = {one} THEN {one} ELSE Readings \ {one} :
       samples = [i \in 1..MaxReadings |->
                    [c \in Channels |-> sample(c, IF i % 2 = 1 THEN one ELSE two)]]
  /\ now = 1 /\ alive = TRUE /\ installed = FALSE
  /\ todo = <<>> /\ of = 0 /\ last = [c \in Channels |-> 0] /\ emitted = FALSE
  /\ slot = [c \in Channels |-> [by |-> "nobody", at |-> 0]]
  /\ natives = 0 /\ enriched = FALSE /\ stream = None

install ==
  /\ alive /\ ~installed /\ plugin \in DOMAIN Publishers
  /\ installed' = TRUE
  /\ UNCHANGED <<device, now, alive, tickVars, slot, natives, enriched, stream>>

\* tick() has sampled, and keeps the runtime alive meanwhile; its channels are
\* compared and published one by one.
tick ==
  /\ alive /\ installed /\ todo = <<>>
  /\ PublishesOnce => ~emitted
  /\ \A c \in Channels : samples[now][c] # None
  /\ todo' = Clients[plugin].channels /\ of' = now
  /\ UNCHANGED <<device, now, alive, installed, last, emitted, slot, natives, enriched, stream>>

\* A value goes into the slot and to the stream of its channel.
publish_early_latest(c, item) ==
  /\ slot' = [slot EXCEPT ![c] = item]
  /\ stream' = IF stream # None /\ c \in DOMAIN stream
               THEN [stream EXCEPT ![c].queue = Append(@, item)] ELSE stream

\* Variant: the formats first.
tick_channel_backwards ==
  /\ todo # <<>>
  /\ LET c == todo[Len(todo)]
     IN IF last[c] # 0 /\ samples[last[c]][c] = samples[of][c] THEN UNCHANGED <<slot, stream, last>>
        ELSE /\ publish_early_latest(c, [by |-> "rust", at |-> of])
             /\ last' = [last EXCEPT ![c] = of]
  /\ emitted' = TRUE /\ todo' = SubSeq(todo, 1, Len(todo) - 1)
  /\ UNCHANGED <<device, now, alive, installed, of, natives, enriched>>

\* One channel of the tick: published, and remembered, if it changed.
tick_channel ==
  /\ todo # <<>>
  /\ LET c == Head(todo)
     IN IF last[c] # 0 /\ samples[last[c]][c] = samples[of][c] THEN UNCHANGED <<slot, stream, last>>
        ELSE /\ publish_early_latest(c, [by |-> "rust", at |-> of])
             /\ last' = [last EXCEPT ![c] = of]
  /\ emitted' = TRUE /\ todo' = Tail(todo)
  /\ UNCHANGED <<device, now, alive, installed, of, natives, enriched>>

DeviceChanges ==
  /\ now < MaxReadings /\ now' = now + 1
  /\ UNCHANGED <<device, alive, installed, tickVars, slot, natives, enriched, stream>>

\* An observer of the platform publishes a value of its own, richer than a sample.
NativePublishes(c) ==
  /\ alive /\ natives < MaxNative
  /\ natives' = natives + 1 /\ enriched' = emitted
  /\ publish_early_latest(c, [by |-> "native", at |-> now])
  /\ UNCHANGED <<device, now, alive, installed, tickVars>>

\* updates(): the stream starts with the retained value.
updates(c) ==
  /\ stream = None
  /\ stream' = [d \in {c} |-> [received |-> <<>>,
                               queue |-> IF slot[c].by = "nobody" THEN <<>> ELSE <<slot[c]>>]]
  /\ UNCHANGED <<device, now, alive, installed, tickVars, slot, natives, enriched>>

recv(c) ==
  /\ stream # None /\ c \in DOMAIN stream /\ stream[c].queue # <<>>
  /\ stream' = [stream EXCEPT ![c] = [received |-> Append(@.received, Head(@.queue)), queue |-> Tail(@.queue)]]
  /\ UNCHANGED <<device, now, alive, installed, tickVars, slot, natives, enriched>>

DropRuntime ==
  /\ alive /\ todo = <<>>
  /\ alive' = FALSE
  /\ UNCHANGED <<device, now, installed, tickVars, slot, natives, enriched, stream>>

Next ==
  \/ install \/ tick \/ tick_channel \/ DeviceChanges \/ DropRuntime
  \/ \E c \in Channels : NativePublishes(c) \/ updates(c) \/ recv(c)

Spec ==
  /\ Init /\ [][Next]_vars
  /\ WF_vars(install \/ tick \/ tick_channel) /\ WF_vars(\E c \in Channels : recv(c))
-----------------------------------------------------------------------------
\* A client that reads formats and then the locale gets a locale of the same
\* reading or a later one: a tick publishes the locale first.
FormatsFollowLocale ==
  plugin = "system" /\ slot["formats"].by = "rust" /\ slot["locale"].by = "rust" =>
    \E i \in slot["formats"].at..now : current("locale") = samples[i]["locale"]

\* Two samples in a row of a stream differ, whatever the observer publishes in
\* between.
NoRepeats ==
  stream # None => \A c \in DOMAIN stream :
    LET told == stream[c].received \o stream[c].queue
        rust == {i \in DOMAIN told : told[i].by = "rust"}
    IN \A i, j \in rust : i < j /\ (\A k \in rust : k <= i \/ j <= k)
         => value(c, told[i]) # value(c, told[j])

\* What the platform publishes after a publisher that publishes once stays.
RichStays == PublishesOnce /\ enriched => slot[plugin].by = "native"

\* A tag that was published is canonical: parsing it gives the parts beside it.
TagsAreCanonical ==
  plugin = "system" /\ slot["locale"].by = "rust" =>
    LET l == current("locale")
    IN parse_bcp47(l.bcp47) = [language |-> l.language, script |-> l.script, region |-> l.region]

SamplesAreTold == FormatsFollowLocale /\ NoRepeats /\ RichStays /\ TagsAreCanonical

\* Once the device stays as it is, clients of a sampler that ticks have its state,
\* or what the observer published over it, and streams end with the slot's value.
Told(c) ==
  /\ samples[now][c] # None /\ ~PublishesOnce =>
       slot[c].by # "nobody" /\ (slot[c].by = "rust" => current(c) = samples[now][c])
  /\ samples[now][c] # None /\ PublishesOnce => slot[c].by # "nobody"
  /\ stream # None /\ c \in DOMAIN stream /\ slot[c].by # "nobody" =>
       stream[c].queue = <<>> /\ stream[c].received[Len(stream[c].received)] = slot[c]

ClientsCatchUp == <>[](alive /\ installed => \A c \in Channels : Told(c))
=============================================================================

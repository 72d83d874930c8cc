----------------------------- MODULE DeviceSamples -----------------------------
(* What the publishers of the device's state make of what the operating system  *)
(* tells them: one operator per sampler and platform, from the readings to the  *)
(* value that is published, None where the sampler gives up. Readings are       *)
(* records of the few things a sampler looks at; a reading that failed is None. *)
EXTENDS Integers, Sequences

CONSTANT None

\* The first member of a sequence that passes, None without one.
Earliest(s, hits) ==
  IF hits = {} THEN None ELSE s[CHOOSE i \in hits : \A j \in hits : i <= j]
First(s, Test(_)) == Earliest(s, {i \in DOMAIN s : Test(s[i])})
Or(reading, fallback) == IF reading = None THEN fallback ELSE reading
-----------------------------------------------------------------------------
(* Battery *)

\* sysfs: the first battery and the first supply in directory order, whatever
\* the other supplies say.
scan_devices(dir) ==
  [battery |-> First(dir, LAMBDA d : d.type = "Battery"),
   ac |-> First(dir, LAMBDA d : d.type \in {"Mains", "USB", "USB_PD", "USB_C", "Wireless"})]

BatteryLinux(dir) ==
  LET found == scan_devices(dir)
      b == found.battery
      online == IF found.ac = None THEN FALSE ELSE found.ac.online
  IN IF b = None THEN None
     ELSE [level |-> IF b.capacity = None THEN None ELSE IF b.capacity > 100 THEN 100 ELSE b.capacity,
           charging |-> IF b.status \in {"Charging", "Discharging", "Not charging", "Full"}
                        THEN b.status ELSE "Unknown",
           power_source |-> IF online THEN "Ac" ELSE IF b.capacity # None THEN "Battery" ELSE "Unknown",
           power_saver |-> FALSE]

\* GetSystemPowerStatus: bit 8 of the flag says charging, in 255 (unknown) too.
BatteryWindows(r) ==
  IF r = None THEN None
  ELSE [level |-> IF r.percent = 255 THEN None ELSE r.percent,
        charging |-> IF (r.flag \div 8) % 2 = 1 THEN "Charging"
                     ELSE IF r.flag = 128 THEN "Unknown"
                     ELSE IF r.line = 1 THEN "Not charging" ELSE "Discharging",
        power_source |-> CASE r.line = 1 -> "Ac" [] r.line = 0 -> "Battery" [] OTHER -> "Unknown",
        power_saver |-> r.saver]

Battery(os, r) ==
  CASE os = "linux" -> BatteryLinux(r) [] os = "windows" -> BatteryWindows(r) [] OTHER -> None
-----------------------------------------------------------------------------
(* Network *)

\* The first default route that is up; a line with too few columns ends the search.
default_route_interface(routes) ==
  LET r == First(routes, LAMBDA l : l.short \/ (l.default /\ l.up))
  IN IF r = None THEN None ELSE IF r.short THEN None ELSE r.iface

classify_link(i) ==
  IF i.wireless THEN "Wifi"
  ELSE IF i.type = None THEN "Other"
  ELSE CASE i.type = 1 -> "Ethernet"
         [] i.type \in {768, 823} -> "Wifi"
         [] i.type \notin {1, 768, 823} /\ i.name \in {"ppp", "wwan", "rmnet"} -> "Cellular"
         [] i.type \notin {1, 768, 823} /\ i.name \in {"tun", "tap"} -> "Vpn"
         [] OTHER -> "Other"

NetworkLinux(routes) ==
  LET i == default_route_interface(routes)
  IN [online |-> i # None, link |-> IF i = None THEN "None" ELSE classify_link(i)]

\* The adapters that are up, in the order of Windows: the first one counts, but
\* that Wi-Fi takes the place of Ethernet.
NetworkWindows(adapters) ==
  LET up == SelectSeq(adapters, LAMBDA a : a.up)
      link == IF up = <<>> THEN "None"
              ELSE IF up[1].link = "Ethernet" /\ \E i \in DOMAIN up : up[i].link = "Wifi" THEN "Wifi"
              ELSE up[1].link
  IN [online |-> up # <<>>, link |-> link]

Network(os, r) ==
  CASE os = "linux" -> NetworkLinux(r)
    [] os = "windows" -> IF r = None THEN None ELSE NetworkWindows(r)
    [] OTHER -> None
-----------------------------------------------------------------------------
(* Theme *)

ThemeLinux(r) ==
  IF r.scheme # None
  THEN CASE r.scheme = "prefer-dark" -> "Dark" [] r.scheme = "prefer-light" -> "Light" [] OTHER -> "Auto"
  ELSE IF r.gtk = "dark" THEN "Dark" ELSE "Auto"

ThemeMac(r) == IF r.style = "dark" THEN "Dark" ELSE "Light"

ThemeWindows(r) ==
  IF r.light = None THEN "Auto" ELSE IF r.light = 0 THEN "Dark" ELSE "Light"

color_scheme(os, r) ==
  CASE os = "linux" -> ThemeLinux(r) [] os = "macos" -> ThemeMac(r)
    [] os = "windows" -> ThemeWindows(r) [] OTHER -> "Auto"

Theme(os, r) == [color_scheme |-> color_scheme(os, r)]
-----------------------------------------------------------------------------
(* Storage, device, capabilities, safe area *)

StorageUnix(r) ==
  IF r = None THEN None ELSE [free |-> r.bavail * r.frsize, total |-> r.blocks * r.frsize]

StorageWindows(r) == IF r = None THEN None ELSE [free |-> r.free_available, total |-> r.total]

Storage(os, r) ==
  CASE os \in {"linux", "macos"} -> StorageUnix(r) [] os = "windows" -> StorageWindows(r) [] OTHER -> None

rust_form_factor(os) ==
  CASE os \in {"android", "ios"} -> "Phone"
    [] os \in {"linux", "macos", "windows"} -> "Desktop" [] OTHER -> "Unknown"

rust_fallback(os) ==
  [os_name |-> os, form_factor |-> rust_form_factor(os), os_version |-> None, ram |-> None, model |-> None]

DeviceLinux(base, r) == [base EXCEPT !.ram = r.ram, !.os_version = r.version]
DeviceMac(base, r) == [base EXCEPT !.os_version = r.version]
DeviceWindows(base, r) == [base EXCEPT !.ram = r.ram, !.os_version = r.version]

enrich(os, base, r) ==
  CASE os = "linux" -> DeviceLinux(base, r) [] os = "macos" -> DeviceMac(base, r)
    [] os = "windows" -> DeviceWindows(base, r) [] OTHER -> base

Flags == {"fingerprint", "camera_back", "bluetooth", "microphone"}

CapabilitiesLinux(r) ==
  [f \in Flags |-> CASE f = "fingerprint" -> r.fprintd
                     [] f = "camera_back" -> \E n \in r.dev : n = "video0"
                     [] f = "bluetooth" -> r.adapters # {}
                     [] f = "microphone" -> \E n \in r.asound : n = "card0"]

Capabilities(os, r) == IF os = "linux" THEN CapabilitiesLinux(r) ELSE [f \in Flags |-> FALSE]

\* Only iOS has a sampler, and only with a key window.
SafeAreaIos(r) == IF r = None THEN None ELSE [system_bars |-> r, ime |-> 0, display_cutout |-> 0]
SafeArea(os, r) == IF os = "ios" THEN SafeAreaIos(r) ELSE None
-----------------------------------------------------------------------------
(* Locale, time zone, formats. A tag is a sequence of subtags, a subtag has a   *)
(* text in lower case, what it is made of, and the case it was written in.      *)

Lower(s) == [s EXCEPT !.case = "lower"]
Upper(s) == [s EXCEPT !.case = "upper"]
Title(s) == [s EXCEPT !.case = "title"]

parse_bcp47(tag) ==
  LET rest == IF tag = <<>> THEN <<>> ELSE Tail(tag)
      script == First(rest, LAMBDA s : s.kind = "alpha4")
      region == First(rest, LAMBDA s : s.kind \in {"alpha2", "digit3"})
  IN [language |-> IF tag = <<>> THEN None ELSE Lower(Head(tag)),
      script |-> IF script = None THEN None ELSE Title(script),
      region |-> IF region = None THEN None
                 ELSE IF region.kind = "alpha2" THEN Upper(region) ELSE region]

canonicalize_tag(l) ==
  LET part(x) == IF x = None THEN <<>> ELSE <<x>>
  IN part(l.language) \o part(l.script) \o part(l.region)

\* The text a lookup goes by: the tables are in upper case for regions.
Text(s) == IF s = None THEN None ELSE s.text

direction_from_language(language) ==
  IF language \in {"ar", "arc", "ckb", "dv", "fa", "ha", "he", "khw", "ks", "ps", "sd", "ug", "ur", "yi"}
  THEN "Rtl" ELSE "Ltr"

measurement_for_region(region) ==
  CASE region \in {"us", "lr", "mm"} -> "UsCustomary" [] region = "gb" -> "UkImperial" [] OTHER -> "Metric"

temperature_for_region(region) ==
  IF region \in {"us", "bs", "bz", "ky", "lr", "pw", "fm", "mh", "pr", "gu", "vi", "as", "mp"}
  THEN "Fahrenheit" ELSE "Celsius"

\* The rows of the table for the regions of the readings.
currency_for_region(region) ==
  CASE region = "us" -> "USD" [] region = "gb" -> "GBP" [] region = "mx" -> "MXN"
    [] region = "sa" -> "SAR" [] OTHER -> None

uses_24h_for(language, region) ==
  ~ \/ language = "en" /\ region \in {"us", "au", "ca", "nz", "ph"}
    \/ language = "es" /\ region \in {"mx", "us"}

locale_has_am_pm(language, region) ==
  \/ language = "en" /\ region \in {"us", "au", "ca", "nz", "ph"}
  \/ language = "es" /\ region \in {"mx", "us"}

first_day_of_week_for(region) ==
  CASE region \in {"us", "ca", "mx", "br", "ar", "cl", "co", "pe", "ve", "jp", "kr", "cn",
                   "tw", "hk", "il", "za", "ph", "th"} -> 7
    [] region \in {"af", "bh", "dz", "eg", "iq", "jo", "kw", "ly", "om", "qa", "sa", "sd", "sy", "ye"} -> 6
    [] OTHER -> 1

separators_for(language) ==
  IF language \in {"en", "zh", "ja", "ko", "th"} THEN <<".", ",">> ELSE <<",", ".">>

\* The first of LC_ALL, LC_MESSAGES, LANG, LANGUAGE that is neither empty nor
\* exactly C or POSIX; C with an encoding is a language like any other.
read_env_locale(env, default) ==
  LET hit == First(env, LAMBDA v : v # None /\ v.form \notin {"empty", "C", "POSIX"})
  IN IF hit = None THEN default ELSE hit.tag

\* TZ without its colon, else what /etc/localtime links to below zoneinfo.
read_timezone_id(r) == IF r.tz \notin {None, ""} THEN r.tz ELSE r.localtime

locale(tag) ==
  LET l == parse_bcp47(tag)
  IN [bcp47 |-> canonicalize_tag(l), language |-> l.language, script |-> l.script, region |-> l.region,
      direction |-> direction_from_language(Text(l.language))]

SystemLinux(r, default) ==
  LET l == locale(read_env_locale(r.env, default))
      lang == Text(l.language)
      reg == Text(l.region)
  IN [locale |-> l,
      timezone |-> [id |-> Or(read_timezone_id(r), "UTC"), offset |-> 0, is_dst |-> FALSE],
      formats |-> [uses_24h |-> uses_24h_for(lang, reg), first_day |-> first_day_of_week_for(reg),
                   measurement |-> measurement_for_region(reg), temperature |-> temperature_for_region(reg),
                   currency |-> currency_for_region(reg), separators |-> separators_for(lang),
                   calendar |-> "gregorian"]]

\* Apple: 1 = Sunday ... 7 = Saturday. ISO: 1 = Monday ... 7 = Sunday.
apple_weekday_to_iso(d) == IF d = 1 THEN 7 ELSE IF d \in 2..7 THEN d - 1 ELSE 1

calendar_from_id(id) ==
  IF id \in {"islamic", "islamic-civil", "islamic-umalqura", "islamic-tbla", "islamic-rgsa"}
  THEN "islamic" ELSE id

SystemApple(r) ==
  IF r.tag = None \/ r.tz = None THEN None
  ELSE LET l == locale(r.tag)
           lang == Text(l.language)
           reg == Text(l.region)
       IN [locale |-> l,
           timezone |-> [id |-> Or(r.tz.name, "UTC"), offset |-> r.tz.seconds, is_dst |-> r.tz.dst],
           formats |-> [uses_24h |-> ~locale_has_am_pm(lang, reg),
                        first_day |-> IF r.calendar = None THEN 1 ELSE apple_weekday_to_iso(r.calendar.first),
                        measurement |-> IF r.metric THEN "Metric" ELSE measurement_for_region(reg),
                        temperature |-> temperature_for_region(reg),
                        currency |-> Or(r.currency, currency_for_region(reg)),
                        separators |-> <<Or(r.decimal, "."), Or(r.group, ",")>>,
                        calendar |-> IF r.calendar = None THEN "gregorian"
                                     ELSE calendar_from_id(Or(r.calendar.id, "gregorian"))]]

\* The bias is in minutes, west of UTC positive, with that of the season on top.
timezone_info(z) ==
  LET bias == z.bias + IF z.kind = 2 THEN z.daylight ELSE z.standard
  IN [id |-> Or(z.key, "UTC"), offset |-> (0 - bias) * 60, is_dst |-> z.kind = 2]

SystemWindows(r, default) ==
  LET tag == Or(r.name, default)
      l == locale(tag)
      reg == Text(l.region)
  IN [locale |-> l,
      timezone |-> timezone_info(r.zone),
      formats |-> [uses_24h |-> IF r.time = None THEN FALSE ELSE r.time = "H",
                   first_day |-> IF r.first = None THEN 1 ELSE ((r.first + 1) % 7) + 1,
                   measurement |-> measurement_for_region(reg), temperature |-> temperature_for_region(reg),
                   currency |-> IF r.symbol \in {None, ""} THEN currency_for_region(reg) ELSE r.symbol,
                   separators |-> <<Or(r.decimal, "."), Or(r.thousand, ",")>>,
                   calendar |-> "gregorian"]]

System(os, r, default) ==
  CASE os = "linux" -> SystemLinux(r, default)
    [] os \in {"macos", "ios"} -> SystemApple(r)
    [] os = "windows" -> SystemWindows(r, default)
    [] OTHER -> None
=============================================================================

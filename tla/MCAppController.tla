-------------------------- MODULE MCAppController --------------------------
(* Small instances of AppController.  A queue of four slots holds three      *)
(* commands, so a control POST of two and the messages of one broker loop    *)
(* fill it; the command sets of a cfg pick the part of the state it varies.  *)
EXTENDS AppController

Button(type) == [type |-> type, value |-> 0, source |-> "Button"]
Mqtt(type, value) == [type |-> type, value |-> value, source |-> "Mqtt"]
Web(type, value) == [type |-> type, value |-> value, source |-> "Web"]
Step(delta) == [type |-> "AdjustFanPercent", value |-> delta, source |-> "Button"]

\* outputs: fan, lights and backlight from every source, with steps that clamp
\* at both ends, and a setting the router does not handle
OutputButtons == {Step(95), Step(-95), Button("TogglePower"), Button("ToggleLights"),
                  Button("ResetWifiSettings")}
OutputMqtt == {Mqtt("SetFanPercent", 0), Mqtt("SetRingBrightness", 50), Mqtt("SetScreenLight", 0),
               Mqtt("SetStatusLed", 1)}
OutputPosts == {<<Web("SetLights", 1), Web("SetScreenLight", 1)>>}

\* requests: what reboots, drops, persists or is carried out later; the filter life
\* and its ticks change one cell or several of the record
RequestButtons == {Button("ToggleWifi")}
RequestMqtt == {Mqtt("SetFilterDays", 7)}
RequestPosts == {<<Web("SetFanPercent", 25), Web("SetLights", 1), Web("SetScreenLight", 1)>>}
RequestSystem == {Web("Reboot", 0), Web("EnterDfu", 0), Web("ArmUpdate", 0)}

\* the backlight after one request that asks for it
ScreenMqtt == {Mqtt("SetScreenLight", 0), Mqtt("SetLights", 1)}
ScreenPosts == {<<Web("SetLights", 1), Web("SetScreenLight", 0)>>}

\* power on after a low speed
PowerButtons == {Step(-20), Button("TogglePower")}

None == {}
Off == {FALSE}
On == {TRUE}
Either == BOOLEAN
OnePm == {0}
TwoPm == {0, 7}
=============================================================================

---------------------------- MODULE MCCartridge -----------------------------
(***************************************************************************)
(* Four parts of a game pak, each while the others rest: an EEPROM with    *)
(* words of three bits and two addresses, a flash chip of three sectors of *)
(* two bytes in each bank, the clock, and the paks that are inserted one   *)
(* after another.                                                          *)
(***************************************************************************)
EXTENDS Flash, Eeprom, Rtc, Gamepak

VARIABLE part

cartridgevars == <<vars, eepromvars, rtcvars, gamepakvars, part>>

CartridgeInit ==
    /\ part \in {"eeprom", "flash", "rtc", "gamepak"}
    /\ Init
    /\ EepromInit /\ (part = "eeprom" \/ detected)
    /\ RtcInit
    /\ GamepakInit /\ (part = "gamepak" \/ archived = {})

\* The program has made its requests to the clock.
Rest ==
    /\ phase = "idle" /\ requests = MaxRequests
    /\ UNCHANGED rtcvars

CartridgeNext ==
    /\ UNCHANGED part
    /\ \/ part = "eeprom" /\ EepromNext /\ UNCHANGED <<vars, rtcvars, gamepakvars>>
       \/ part = "flash" /\ Next /\ UNCHANGED <<eepromvars, rtcvars, gamepakvars>>
       \/ part = "rtc" /\ (RtcNext \/ Rest) /\ UNCHANGED <<vars, eepromvars, gamepakvars>>
       \/ part = "gamepak" /\ GamepakNext /\ UNCHANGED <<vars, eepromvars, rtcvars>>

CartridgeSpec == CartridgeInit /\ [][CartridgeNext]_cartridgevars

\* The night before and the afternoon after.
MCTimes == {<<21, 12, 31, 5, 23, 59, 58>>, <<22, 1, 1, 6, 13, 0, 7>>}

Row(type, rtc) == [type |-> type, rtc |-> rtc, mirroring |-> FALSE]
\* A flash chip and a clock, an EEPROM of a width to be detected, nothing known.
MCPaks == {"boktai", "golf", "demo"}
\* Two of the same chip.
EepromPaks == {"golf", "karts"}
MCEntry == [p \in MCPaks \union EepromPaks |->
    CASE p = "boktai" -> Row("detect", TRUE)
      [] p = "golf" -> Row("eeprom_undetected", FALSE)
      [] p = "karts" -> Row("eeprom_4", FALSE)
      [] p = "demo" -> Row("missing", FALSE)]
MCMarks == [p \in MCPaks \union EepromPaks |-> IF p = "boktai" THEN "flash_64" ELSE "detect"]
=============================================================================

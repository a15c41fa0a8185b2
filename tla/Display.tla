------------------------------- MODULE Display -------------------------------
(***************************************************************************)
(* The display of NanosOS from the bus up: the initialisation sequences of *)
(* drivers/autodetect/lcd_probe.c, the windows of drivers/lcd/lcd_driver.c *)
(* and the panel that receives both.                                       *)
(*                                                                         *)
(* A sequence keeps what a panel needs before it can show a pixel: resets, *)
(* pixel format, leaving sleep, switching on, and the pauses between them. *)
(* Voltages, gamma, orientation and timing are "config".  The glass is     *)
(* seen in bands of BAND rows; a band shows a set of painted things.       *)
(***************************************************************************)
EXTENDS Integers, SequencesExt

LCD_W == 480
LCD_H == 800
BAND  == 16

NBands == LCD_H \div BAND
Bands  == 0 .. NBands - 1

-----------------------------------------------------------------------------
(* The ten drivers.  A command is <<name>> or, for the format, <<name, bpp>>; *)
(* the reset is a line of its own, the software reset a command.             *)

Reset      == <<"reset">>
SwReset    == <<"sw_reset">>
Config     == <<"config">>
Wait       == <<"wait">>
SleepOut   == <<"sleep_out">>
DisplayOn  == <<"on">>
DisplayOff == <<"off">>
Format(n)  == <<"format", n>>

\* panel_reset(): a pause with the line low, a pause after it.
HardReset == <<Wait, Reset, Wait>>

ILI9341 == HardReset \o <<Config, Format(16), Config, SleepOut, Wait, DisplayOn>>

ILI9488 == HardReset \o <<Config, Format(18), Config, SleepOut, Wait, DisplayOn>>

ST7789  == HardReset \o <<SwReset, Wait, SleepOut, Wait, Format(16), Config,
                          DisplayOn, Wait>>

ST7735  == HardReset \o <<SwReset, Wait, SleepOut, Wait, Config, Format(16), DisplayOn>>

GC9A01  == HardReset \o <<Config, Format(16), Config, SleepOut, Wait, DisplayOn, Wait>>

NT35510 == HardReset \o <<Config, Format(24), SleepOut, Wait, DisplayOn>>

HX8357D == HardReset \o <<Config, Format(16), Config, SleepOut, Wait, DisplayOn, Wait>>

SSD1351 == HardReset \o <<Config, DisplayOff, Config, Format(16), Config, DisplayOn, Wait>>

\* The register that is written with 0x80 to switch the display on is written
\* with 0x00 behind the pause.
RA8875  == HardReset \o <<Config, Wait, Config, Wait, Format(16), Config,
                          DisplayOn, Wait, DisplayOff, Config, Wait>>

ST7701S == HardReset \o <<Config, Format(16), Config, SleepOut, Wait, DisplayOn, Wait>>

InitSequence ==
  [ILI9341 |-> ILI9341, ILI9488 |-> ILI9488, ST7789 |-> ST7789, ST7735 |-> ST7735,
   GC9A01 |-> GC9A01, NT35510 |-> NT35510, HX8357D |-> HX8357D, SSD1351 |-> SSD1351,
   RA8875 |-> RA8875, ST7701S |-> ST7701S]

Chips == DOMAIN InitSequence

\* What the table of panels, and hence hal_lcd_get_caps, says of each.
Caps ==
  LET C(w, h, bits) == [width |-> w, height |-> h, color_bits |-> bits]
  IN  [ILI9341 |-> C(240, 320, 16), ILI9488 |-> C(320, 480, 18), ST7789 |-> C(240, 320, 16),
       ST7735 |-> C(128, 160, 16), GC9A01 |-> C(240, 240, 16), NT35510 |-> C(480, 800, 24),
       HX8357D |-> C(320, 480, 16), SSD1351 |-> C(128, 128, 16), RA8875 |-> C(800, 480, 16),
       ST7701S |-> C(480, 800, 16)]

\* probe_panel(): a panel that does not answer to its identification is taken
\* for an ST7701S, and so is a bus without a panel.
DriverOf(fitted) == IF fitted \in Chips THEN fitted ELSE "ST7701S"

-----------------------------------------------------------------------------
(* The panel: whether it is out of sleep and on, its pixel format, what its  *)
(* memory shows, and whether it was sent pixels for another glass (garbled)  *)
(* or before it was ready for them (missed).                                 *)

Blank == [b \in Bands |-> {}]

PowerUp == [awake |-> FALSE, on |-> FALSE, bpp |-> 0, gram |-> Blank,
            garbled |-> FALSE, missed |-> FALSE]

\* These two have a command set of their own and no sleep mode.
OwnCommands == {"SSD1351", "RA8875"}

Obey(p, fitted, c) ==
  CASE c \in {Reset, SwReset} -> [p EXCEPT !.awake = fitted \in OwnCommands, !.on = FALSE, !.bpp = 0]
    [] c[1] = "sleep_out" -> [p EXCEPT !.awake = TRUE]
    [] c[1] = "on"        -> [p EXCEPT !.on = TRUE]
    [] c[1] = "off"       -> [p EXCEPT !.on = FALSE]
    [] c[1] = "format"    -> [p EXCEPT !.bpp = c[2]]
    [] OTHER              -> p

\* The panel behind its initialisation sequence.
Initialised(chip) ==
  FoldLeft(LAMBDA p, c : Obey(p, chip, c), PowerUp, InitSequence[chip])

\* Every sequence leaves its panel out of sleep and in the format its capabilities
\* tell; all but one leave it switched on.
SequencesComplete ==
  \A chip \in Chips : /\ Initialised(chip).awake
                      /\ Initialised(chip).bpp = Caps[chip].color_bits
                      /\ Initialised(chip).on <=> chip # "RA8875"

\* lcd_set_window and lcd_write_pixels are written for one command set, for a
\* glass of LCD_W by LCD_H and for 16 bits a pixel.
Fits(fitted) ==
  /\ fitted \notin OwnCommands
  /\ Caps[fitted].width = LCD_W /\ Caps[fitted].height = LCD_H
  /\ Caps[fitted].color_bits = 16

\* The bands with some of the rows y .. y+h-1, and whether band b has only such rows.
Touched(y, h)  == (y \div BAND .. (y + h - 1) \div BAND) \cap Bands
Fills(y, h, b) == y <= b * BAND /\ (b + 1) * BAND <= y + h

\* lcd_set_window and lcd_write_pixels for windows that together touch `bands'.
Show(p, fitted, bands, picture) ==
  IF fitted \notin Chips THEN p
  ELSE [p EXCEPT
          !.missed  = @ \/ ~(p.awake /\ p.on /\ p.bpp = Caps[fitted].color_bits),
          !.garbled = @ \/ ~Fits(fitted),
          !.gram = [b \in Bands |-> IF b \in bands THEN picture[b] ELSE @[b]]]

==============================================================================

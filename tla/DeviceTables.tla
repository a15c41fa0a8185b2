---------------------------- MODULE DeviceTables ----------------------------
(***************************************************************************)
(* The databases of the hardware detection: what each driver of            *)
(* drivers/autodetect/ sends to a bus to identify a chip, and the answer   *)
(* it expects.  A row keeps the fields that detection reads; rates,        *)
(* resolutions and descriptions are left out.                              *)
(***************************************************************************)
EXTENDS Naturals, Sequences

-----------------------------------------------------------------------------
(* Comparing an answer with a row, as (x & mask) == (val & mask).          *)

Bit(x, i) == (x \div <<1, 2, 4, 8, 16, 32, 64, 128>>[i + 1]) % 2

(* A slip: a test for (x & val & mask) == (val & mask).                    *)
AgreeOnOnes(x, val, mask) ==
    \A i \in 0..7 : Bit(mask, i) = 1 /\ Bit(val, i) = 1 => Bit(x, i) = 1

Agree(x, val, mask) ==
    \A i \in 0..7 : Bit(mask, i) = 1 => Bit(x, i) = Bit(val, i)

(* All the bytes a row compares; a row without any accepts every answer.   *)
AgreeAll(id, val, mask) == \A b \in 1..Len(val) : Agree(id[b], val[b], mask[b])

-----------------------------------------------------------------------------
(* lcd_probe.c.  The last row is the panel assumed when no other answers.  *)

Panel(name, cmd, id, mask) ==
    [name |-> name, cmd |-> cmd, id |-> id, mask |-> mask]

Panels ==
    << Panel("ILI9341", \h04, <<\h00, \h93, \h41>>, <<\h00, \hFF, \hFF>>),
       Panel("ILI9488", \h04, <<\h00, \h94, \h88>>, <<\h00, \hFF, \hFF>>),
       Panel("ST7789",  \h04, <<\h00, \h85, \h52>>, <<\h00, \hFF, \hFF>>),
       Panel("ST7735",  \h04, <<\h5C, \h89, \hF0>>, <<\hFF, \hFF, \h00>>),
       Panel("GC9A01",  \h04, <<\h00, \h90, \hA0>>, <<\h00, \hFF, \hF0>>),
       Panel("NT35510", \h04, <<\h55, \h35, \h10>>, <<\hFF, \hFF, \hFF>>),
       Panel("HX8357D", \hD0, <<\h99, \h83, \h57>>, <<\hFF, \hFF, \hFF>>),
       Panel("SSD1351", \hFA, <<\h51, \h51>>,       <<\hFF, \h00>>),
       Panel("RA8875",  \h00, <<\h75>>,             <<\hFF>>),
       Panel("ST7701S", \hFF, <<>>,                 <<>>) >>

-----------------------------------------------------------------------------
(* touch_probe.c.  The rows of the Goodix chips give one initializer to    *)
(* each field.  The others give two more, {0},{0} after the mask, so that  *)
(* init_fn takes the initializer two places before its own, a number below *)
(* 256: calling it is an instruction fetch from an address without memory. *)

Touch(name, addrs, wide, reg, id, mask, callable) ==
    [name |-> name, addrs |-> addrs, wide |-> wide, reg |-> reg,
     id |-> id, mask |-> mask, callable |-> callable]

TouchIcs ==
    << Touch("GT911",    {\h5D, \h14}, TRUE, \h8140,
             <<\h39, \h31, \h31, \h30>>, <<\hFF, \hFF, \hFF, \h00>>, TRUE),
       Touch("GT1151",   {\h5D, \h14}, TRUE, \h8140,
             <<\h31, \h31, \h35, \h31>>, <<\hFF, \hFF, \hFF, \hFF>>, TRUE),
       Touch("FT5206",   {\h38}, FALSE, \hA8, <<\h06>>, <<\hFF>>, FALSE),
       Touch("FT5336",   {\h38}, FALSE, \hA8, <<\h36>>, <<\hFF>>, FALSE),
       Touch("FT6336",   {\h38}, FALSE, \hA8, <<\h36>>, <<\hF0>>, FALSE),
       Touch("FT6206",   {\h38}, FALSE, \hA8, <<\h06>>, <<\hFF>>, FALSE),
       Touch("CST816S",  {\h15}, FALSE, \hA7, <<\hB4>>, <<\hFF>>, FALSE),
       Touch("CST820",   {\h15}, FALSE, \hA7, <<\hB5>>, <<\hFF>>, FALSE),
       Touch("NS2009",   {\h48}, FALSE, \h00, <<>>, <<>>, FALSE),
       Touch("STMPE811", {\h41, \h44}, FALSE, \h00, <<\h08, \h11>>, <<\hFF, \hFF>>, FALSE),
       Touch("TT21100",  {\h24}, FALSE, \h01, <<\h21, \h00>>, <<\hFF, \h00>>, FALSE),
       Touch("AW5306",   {\h38}, FALSE, \hA8, <<\h06>>, <<\hF6>>, FALSE) >>

TouchAddrs == <<\h5D, \h14, \h38, \h15, \h48, \h41, \h44, \h24>>

-----------------------------------------------------------------------------
(* audio_probe.c.  The last two rows have no I2C interface.                *)

Codec(name, addrs, reg, id, mask, adc) ==
    [name |-> name, addrs |-> addrs, reg |-> reg, id |-> id, mask |-> mask, adc |-> adc]

Codecs ==
    << Codec("ES8388",  {\h10, \h11}, \hFD, <<\h00, \h88>>, <<\h00, \hFF>>, TRUE),
       Codec("ES8374",  {\h10},       \hFD, <<\h74>>,       <<\hFF>>,       TRUE),
       Codec("WM8978",  {\h1A},       \h00, <<>>,           <<>>,           TRUE),
       Codec("WM8960",  {\h1A},       \h00, <<>>,           <<>>,           TRUE),
       Codec("AC101",   {\h1A},       \h00, <<\hAC, \h10>>, <<\hFF, \hFF>>, TRUE),
       Codec("TLV320",  {\h18, \h19}, \h00, <<\h00>>,       <<\h00>>,       TRUE),
       Codec("UDA1380", {\h18, \h19}, \h00, <<\h18, \h80>>, <<\hFF, \hF0>>, TRUE),
       Codec("PCM5102A",  {}, 0, <<>>, <<>>, FALSE),
       Codec("MAX98357A", {}, 0, <<>>, <<>>, FALSE) >>

AudioAddrs == <<\h10, \h11, \h18, \h19, \h1A>>

-----------------------------------------------------------------------------
(* peripheral_probe.c.  who_am_i_reg is a byte: the 0x300A of the OV5640   *)
(* is stored as 0x0A.                                                      *)

Periph(name, addrs, reg, val, mask, category) ==
    [name |-> name, addrs |-> addrs, reg |-> reg % 256,
     id |-> <<val>>, mask |-> <<mask>>, category |-> category]

Peripherals ==
    << Periph("MPU6050",  <<\h68, \h69>>, \h75, \h68, \hFF, "IMU"),
       Periph("MPU9250",  <<\h68, \h69>>, \h75, \h71, \hFF, "IMU"),
       Periph("MPU6886",  <<\h68>>,       \h75, \h19, \hFF, "IMU"),
       Periph("ICM42688", <<\h68, \h69>>, \h75, \h47, \hFF, "IMU"),
       Periph("BMI160",   <<\h68, \h69>>, \h00, \hD1, \hFF, "IMU"),
       Periph("LSM6DS3",  <<\h6A, \h6B>>, \h0F, \h69, \hFF, "IMU"),
       Periph("LSM6DSO",  <<\h6A, \h6B>>, \h0F, \h6C, \hFF, "IMU"),
       Periph("ADXL345",  <<\h53, \h1D>>, \h00, \hE5, \hFF, "IMU"),
       Periph("BMP280",   <<\h76, \h77>>, \hD0, \h58, \hFF, "ENV"),
       Periph("BME280",   <<\h76, \h77>>, \hD0, \h60, \hFF, "ENV"),
       Periph("BME680",   <<\h76, \h77>>, \hD0, \h61, \hFF, "ENV"),
       Periph("AHT20",    <<\h38>>,       \h71, \h18, \hF8, "ENV"),
       Periph("AHT10",    <<\h38>>,       \h71, \h08, \hF8, "ENV"),
       Periph("SHT31",    <<\h44, \h45>>, \h00, \h00, \h00, "ENV"),
       Periph("DHT12",    <<\h5C>>,       \h00, \h00, \h00, "ENV"),
       Periph("LPS22HB",  <<\h5C, \h5D>>, \h0F, \hB1, \hFF, "ENV"),
       Periph("SHTC3",    <<\h70>>,       \hEF, \hC8, \hC8, "ENV"),
       Periph("DS3231",   <<\h68>>,       \h00, \h00, \h00, "RTC"),
       Periph("PCF8563",  <<\h51>>,       \h00, \h00, \h00, "RTC"),
       Periph("RV3028",   <<\h52>>,       \h28, \h00, \h00, "RTC"),
       Periph("DS1307",   <<\h68>>,       \h07, \h00, \h00, "RTC"),
       Periph("PCA9685",  <<\h40, \h41, \h70>>, \h00, \h00, \h00, "LED"),
       Periph("IS31FL3741", <<\h30, \h31, \h32>>, \h00, \h00, \h00, "LED"),
       Periph("PCF8574",  <<\h20, \h21, \h3F>>, \h00, \h00, \h00, "CUSTOM"),
       Periph("MCP23017", <<\h20, \h21, \h27>>, \h00, \h40, \hFE, "CUSTOM"),
       Periph("OV2640",   <<\h30, \h21>>, \h0A, \h26, \hFF, "CAMERA"),
       Periph("OV5640",   <<\h3C>>,     \h300A, \h56, \hFF, "CAMERA") >>

(* A row that compares no bit of the answer.                               *)
Unidentified(row) == \A b \in 1..Len(row.id) : row.mask[b] = 0
=============================================================================

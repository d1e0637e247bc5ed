------------------------------ MODULE MCWebApp ------------------------------
(* An overlay of 2 by 2 cells, a frame of 3 pixels read 2 at a time from     *)
(* bursts of 2, three exponents of the gamma slider with their real curves,  *)
(* and requests of every route, two or more where they share a register.     *)
EXTENDS WebApp

GammaCurve ==
  [g \in {45, 100, 220} |->
     CASE g = 45  -> <<39, 54, 73, 100, 111, 120, 129, 137, 144, 151, 164, 176, 197, 216, 233>>
       [] g = 100 -> GAM_BREAKPOINTS
       [] g = 220 -> <<0, 0, 1, 3, 4, 6, 9, 12, 16, 20, 30, 42, 73, 113, 163>>]
GammaExponent == [y \in {137, 64, 12} |-> CASE y = 137 -> 45 [] y = 64 -> 100 [] y = 12 -> 221]
GammaExponents == DOMAIN GammaCurve

GoodAndBad == {[calib |-> x, serv |-> x] : x \in BOOLEAN}

Route(name) == [route |-> name]
Peek(addr, n) == [route |-> "raw", addr |-> addr, count |-> n]
Control(id, v) == [route |-> "control", id |-> id, value |-> v]
Coeff(i, v) == [route |-> "coeff", index |-> i, value |-> v]
Upload(words) == [route |-> "upload", words |-> words]
Poke(addr, v) == [route |-> "raw_post", addr |-> addr, value |-> v]
OsdPost(clear, lines, at, text, enabled) ==
  [route |-> "osd_post", clear |-> clear, lines |-> lines, row |-> at[1], col |-> at[2],
   text |-> text, enabled |-> enabled]
a == <<"latin", 97>>
b == <<"latin", 98>>
bar == <<"pseudo", 2>>
kanji == <<"other", 0>>

OneRegister == {Control("agc", TRUE), Control("awb", FALSE), Route("settings"), Route("reset_defaults"),
                Poke(\h13, {0, 1, 2}), Poke(REG_REINIT, 1)}
Colour == {Coeff(0, -300), Coeff(1, 7), Coeff(6, 1), [route |-> "center", value |-> TRUE],
           Route("matrix"), Route("dump")}
Picture == {Control("brightness", {1, 7}), Control("gamma", 45), Control("gamma", 220),
            Control("pattern", "shifting1"), Control("pattern", "plaid"), Control("sepia", TRUE),
            Route("gamma_device"),
            Peek(\h12, 0),
            Peek(MODBUS_ADDR_LIMIT, 1)}
Overlay == {OsdPost(TRUE, <<<<a, b, bar>>, <<kanji>>>>, <<0, 0>>, <<>>, <<TRUE>>),
            OsdPost(FALSE, <<<<a>>>>, <<1, 1>>, <<<<b, b>>>>, <<>>),
            OsdPost(FALSE, <<>>, <<2, 0>>, <<<<a>>>>, <<FALSE>>),
            OsdPost(FALSE, <<>>, <<0, 1>>, <<<<>>>>, <<>>), Route("osd"),
            Poke(REG_OSD_DATA, 97)}
Line == {Route("grab"), Route("connect"), Route("disconnect"), Route("state")}
Mcu == {Upload(<<1, 2>>), Upload(<<>>), Route("serv_reset"), Route("grab"),
        Route("health")}
Session(may, n) == [may |-> may, asks |-> n]
AllSessions == {Session(OneRegister, 3), Session(Colour, 2), Session(Picture, 2), Session(Overlay, 3),
                Session(Line, 3), Session(Mcu, 2)}
=============================================================================

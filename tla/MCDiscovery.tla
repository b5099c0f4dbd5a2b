---------------------------- MODULE MCDiscovery ----------------------------
(* Three radars, two of them at the same address.                          *)
EXTENDS Discovery, TLC

CONSTANTS r1, r2, r3

SmallRadars == {r1, r2, r3}
SmallIp     == r1 :> "192.168.10.150" @@ r2 :> "192.168.10.150"
                 @@ r3 :> "192.168.10.151"
SmallSerial == r1 :> "A1" @@ r2 :> "B2" @@ r3 :> "C3"
SmallKeys   == r1 :> {"driver_hash"} @@ r2 :> {"m72"} @@ r3 :> {}
=============================================================================

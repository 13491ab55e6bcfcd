------------------------------- MODULE MCSetup -------------------------------
(* Values for MerchantSetup: rates of a hundred parts, two of them the      *)
(* platform's; a tax it leaves no room for, one its plans have room for and *)
(* one whose output is too small at the lower amount, splits that overrun   *)
(* the whole once a tax is copied beside them.  With no flat fee the        *)
(* platform's share of the lower amount rounds to nothing.                  *)
EXTENDS MerchantSetup

Cfg(main, tax, splits) == [main |-> main, tax |-> tax, splits |-> splits]

MCConfigs == {Cfg("a", 10, << 50, 45 >>), Cfg("a", 99, << >>)}
MCPatches == {Cfg("b", Keep, << 30 >>), Cfg("b", 20, Keep)}
MCLegacy == Cfg("a", 0, << >>)
=============================================================================

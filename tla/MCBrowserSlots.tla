--------------------------- MODULE MCBrowserSlots ---------------------------
(* An account with a verification and a password login, one with a login    *)
(* from the login page, and one with a verification.                        *)
EXTENDS BrowserSlots, TLC

CONSTANTS a1, a2, a3, page1, login1, api2, page3

AccountOf == page1 :> a1 @@ login1 :> a1 @@ api2 :> a2 @@ page3 :> a3
KindOf == page1 :> "page" @@ login1 :> "login" @@ api2 :> "api"
          @@ page3 :> "page"
=============================================================================

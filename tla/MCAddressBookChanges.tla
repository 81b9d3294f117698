------------------------ MODULE MCAddressBookChanges ------------------------
(* The instance of AddressBookChanges that TLC checks: the page's copy of  *)
(* a folder that lies in another one.                                      *)
EXTENDS AddressBookChanges
=============================================================================

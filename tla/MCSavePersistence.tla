--------------------------- MODULE MCSavePersistence ---------------------------
(* Instances of SavePersistence for TLC.                                    *)
EXTENDS SavePersistence
=============================================================================

------------------------- MODULE MCAdminActiveStatus -------------------------
EXTENDS AdminActiveStatus

CONSTANTS f1, a1, a2

MCFiles == {f1}
MCAdmins == {a1, a2}
MCAdmin == {a1}
=============================================================================

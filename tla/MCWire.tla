------------------------------- MODULE MCWire -------------------------------
EXTENDS Wire

McAdmin == <<"wallet", "admin">>
McWallets == {McAdmin, <<"wallet", "alice">>}
McMints == {<<"mint", "asset">>}
=============================================================================

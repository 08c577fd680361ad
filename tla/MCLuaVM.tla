------------------------------- MODULE MCLuaVM --------------------------------
EXTENDS LuaVM, LuaPrograms
==============================================================================

---------------------------- MODULE MCMigrations ----------------------------
(* Migrations with the scripts of the repository.                          *)
EXTENDS Migrations, Schema

StartUpTables == {"settings", "users", "oid_catalog", "collectors"}

\* Migrations 011 and 017 shift the levels of the hierarchy: "what used to be in
\* groups moves to site, what used to be in site moves to the new location
\* column, and groups starts fresh" (017_location_level.sql), for the devices
\* and for the pick-lists, whose ids stay.  Together with 011, which had moved
\* site to groups and location to site, every device ends where it was.
InPlace(s) ==
    /\ s["devices.site"] = "devices.site"
    /\ s["devices.location"] = "devices.location"
    /\ s["devices.groups"] = "devices.groups"
    /\ s["groups_def"] = "groups_def_new"
    /\ s["sites_def"] = "groups_def"
    /\ s["locations_def"] = "sites_def"

HierarchyKept == process = Serving /\ cut = 0 /\ recorded = DOMAIN Script => InPlace(schema)
=============================================================================

------------------------------- MODULE MCAccess -------------------------------
(* Two accounts and one client, each of which may be there or not. *)
EXTENDS Access, TLC

CONSTANTS u1, u2, c1

Symmetric == Permutations(Users)

\* Changes to accounts and clients, and work of each kind that takes a role.
SomeJobs ==
    [op : {"update_role"}, target : Users, role : {"admin", "manager", "housekeeping"}]
    \cup [op : {"create_user"}, target : Users, role : {"admin"}]
    \cup [op : {"deactivate_user", "update_user"}, target : Users, role : {"admin"}]
    \cup [op : {"create_client", "rotate_secret", "delete_client"}, target : Clients,
          role : {"admin"}]
    \cup [op : {"manage_rooms", "reserve", "keep_guests"}, target : {NoRow}, role : {"admin"}]
=============================================================================

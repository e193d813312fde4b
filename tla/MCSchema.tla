------------------------------ MODULE MCSchema ------------------------------
EXTENDS Schema

\* No database, the oldest one, and those of later releases.
Databases == {
  {},
  {"users", "profile", "social_media"},
  {"users", "profile", "wallets", "tickets", "payment", "marathons", "marathon_participants"},
  {"users", "profile", "faqs", "notifications", "notification_users"},
  {"users", "metatrader_accounts"},
  {"users", "payment"},
  {"users", "departments", "tickets", "ticket_messages"},
  {"users", "user_settings", "sessions", "login_history"},
  EntityTables}
=============================================================================

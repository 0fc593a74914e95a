--------------------------- MODULE StaticMigrations ---------------------------
(***************************************************************************)
(* The migrations of the schema static: one definition per file of           *)
(* commons/alembic/static, in the form of MainMigrations.                    *)
(***************************************************************************)
EXTENDS Alembic

(* The table is created by the first migration of the schema main. *)
s3f89a7d71a5e == Revision({}, << SetType("static_shorturl", "url", "text") >>, <<>>)

(* The users move from the schema main, with the name of their role.  The statement
   that is meant for the case that this fails cannot help: PostgreSQL refuses everything
   in a transaction after an error, and the table has no column role.  Back, the role of
   that name may be gone, and the user needs one. *)
s1da396a88908 == Revision({"3f89a7d71a5e"},
  << ReturnIfTable("static_user"),
     CreateTable("static_user", [id |-> Id, username |-> NotNull(Unique(Text)),
                                 is_password_changed |-> Bool, role_name |-> Text]
                                @@ Of(NotNull(Text), {"type", "password", "email"})),
     Execute([user |-> {"type", "username", "password", "email", "is_password_changed", "role_id"},
              role |-> {"id", "name"}]),
     DropTable("user") >>,
  << CreateTable("user", [id |-> Id, username |-> NotNull(Unique(Text)), is_password_changed |-> Bool,
                          role_id |-> NotNull(ForeignKey("role"))]
                         @@ Of(NotNull(Text), {"type", "password", "email"})),
     Execute([static_user |-> {"type", "username", "password", "email", "is_password_changed", "role_name"},
              role |-> {"id", "name"}]),
     Copy(NoTable, "id", "user", "role_id"),
     DropTable("static_user") >>)

s5472fbc19f39 == Revision({"1da396a88908"},
  << AddColumn("static_user", "temp_password", Text) >>, << DropColumn("static_user", "temp_password") >>)

s1857owc78a07 == Revision({"5472fbc19f39"},
  << AddColumn("static_user", "last_login", Time), AddColumn("static_user", "expire_on", Time),
     AddColumn("static_user", "deactivated", Bool) >>,
  << DropColumn("static_user", "deactivated"), DropColumn("static_user", "expire_on"),
     DropColumn("static_user", "last_login") >>)

(* mutant: one of the two columns is forgotten *)
s53d671b17b20_last_login(type) == << SetType("static_user", "last_login", type) >>

s53d671b17b20_types(type) ==
  << SetType("static_user", "last_login", type), SetType("static_user", "expire_on", type) >>
s53d671b17b20 == Revision({"1857owc78a07"},
  s53d671b17b20_types("timestamp with time zone"), s53d671b17b20_types("timestamp"))

(* A user gets several roles; one of them gives the settings. *)
sae5e88f35669 == Revision({"53d671b17b20"},
  << CreateTable("static_user_role", [user_id |-> Key("static_user"), role_id |-> PrimaryKey(Number)]),
     Execute([static_user |-> {"id", "role_name"}, role |-> {"id", "name"}]),
     AddColumn("static_user", "settings_role_id", Number),
     Execute([static_user |-> {"settings_role_id", "role_name"}, role |-> {"id", "name"}]),
     DropColumn("static_user", "role_name") >>,
  << AddColumn("static_user", "role_name", Text),
     Execute([static_user |-> {"settings_role_id", "role_name"}, role |-> {"id", "name"}]),
     DropColumn("static_user", "settings_role_id"),
     DropTable("static_user_role") >>)

s0c640a58a09a == Revision({"ae5e88f35669"},
  << AddColumn("static_user", "tech_data", Column("hstore")) >>, << DropColumn("static_user", "tech_data") >>)

sbd029dbfc11a == Revision({"0c640a58a09a"}, << Execute([static_user |-> {"tech_data"}]) >>, <<>>)

s107b81f5b9fe_key(cascade) ==
  << DropConstraint("static_user_role_user_id_fkey", "static_user_role"),
     Constrain(Constraint("fk", "static_user_role_user_id_fkey", "static_user_role", {"user_id"},
                          "static_user", cascade)) >>
s107b81f5b9fe == Revision({"bd029dbfc11a"}, s107b81f5b9fe_key(TRUE), s107b81f5b9fe_key(FALSE))

(* The columns that tie an OAuth2 row to its client and its user. *)
OfClientAndUser == [client_id |-> NotNull(Cascade(ForeignKey("static_oauth2_client"))),
                    user_id |-> NotNull(Cascade(ForeignKey("static_user")))]

s7ef947f30f20 == Revision({"107b81f5b9fe"},
  << CreateTable("static_oauth2_client", [id |-> Id, client_id |-> Unique(Text), secret |-> Text,
                                          redirect_uri |-> Text]),
     CreateTable("static_oauth2_bearertoken", [id |-> Id, expire_at |-> Zoned]
       @@ Of(Unique(Text), {"access_token", "refresh_token"}) @@ OfClientAndUser),
     Constrain(UniqueOn("oauth2_bearertoken_client_id_user_id_key", "static_oauth2_bearertoken",
                        {"client_id", "user_id"})),
     CreateTable("static_oauth2_authorizationcode",
       [id |-> Id, redirect_uri |-> Text, code |-> Unique(Text), expire_at |-> Zoned] @@ OfClientAndUser),
     Constrain(UniqueOn("oauth2_authorizationcode_client_id_user_id_key",
                        "static_oauth2_authorizationcode", {"client_id", "user_id"})) >>,
  << DropTable("static_oauth2_bearertoken"), DropTable("static_oauth2_authorizationcode"),
     DropTable("static_oauth2_client") >>)

s44c91d82d419 == Revision({"7ef947f30f20"},
  << CreateTable("static_log", [id |-> Id, date |-> NotNull(Zoned), element_id |-> NotNull(Number)]
                               @@ Of(NotNull(Text), {"action", "element_type", "element_name",
                                                     "element_url_table", "username"})) >>,
  << DropTable("static_log") >>)

s76d72fb3fcb9_columns ==
  << <<"static_oauth2_client", "state_required", Bool>>, <<"static_oauth2_client", "pkce_required", Bool>>,
     <<"static_oauth2_bearertoken", "state", Text>>, <<"static_oauth2_authorizationcode", "state", Text>>,
     <<"static_oauth2_authorizationcode", "challenge", Text>>,
     <<"static_oauth2_authorizationcode", "challenge_method", Text>> >>
s76d72fb3fcb9 == Revision({"44c91d82d419"},
  ForEach(s76d72fb3fcb9_columns, LAMBDA c : <<AddColumn(c[1], c[2], c[3])>>),
  ForEach(s76d72fb3fcb9_columns, LAMBDA c : <<DropColumn(c[1], c[2])>>))

(* The columns that become required; the flags and the hits get a value first. *)
s910b4ca53b68_columns ==
  << <<"static_oauth2_authorizationcode", "redirect_uri">>, <<"static_oauth2_authorizationcode", "expire_at">>,
     <<"static_oauth2_bearertoken", "access_token">>, <<"static_oauth2_bearertoken", "refresh_token">>,
     <<"static_oauth2_bearertoken", "expire_at">>, <<"static_oauth2_client", "client_id">>,
     <<"static_oauth2_client", "secret">>, <<"static_oauth2_client", "redirect_uri">>,
     <<"static_oauth2_client", "state_required">>, <<"static_oauth2_client", "pkce_required">>,
     <<"static_shorturl", "url">>, <<"static_shorturl", "creation">>, <<"static_shorturl", "nb_hits">>,
     <<"static_user", "is_password_changed">>, <<"static_user", "deactivated">> >>
s910b4ca53b68_given ==
  {"state_required", "pkce_required", "nb_hits", "is_password_changed", "deactivated"}
s910b4ca53b68_upgrade ==
  Require(s910b4ca53b68_columns, {c \in ToSet(s910b4ca53b68_columns) : c[2] \in s910b4ca53b68_given})
s910b4ca53b68_downgrade == ForEach(Reverse(s910b4ca53b68_columns), LAMBDA c : <<SetNull(c[1], c[2], TRUE)>>)
s910b4ca53b68 == Revision({"76d72fb3fcb9"}, s910b4ca53b68_upgrade, s910b4ca53b68_downgrade)

saa41e9613256 == Revision({"910b4ca53b68"},
  << Constrain(IndexOn("ix_main_static_user_email", "static_user", {"email"})) >>,
  << DropConstraint("ix_main_static_user_email", "static_user") >>)

(* mutant: the rows get no name before they need one *)
s267b4c1bde2e_without_names == Revision({"aa41e9613256"},
  << AddColumn("static_user", "display_name", Text), SetNull("static_user", "display_name", FALSE) >>,
  << DropColumn("static_user", "display_name") >>)

s267b4c1bde2e == Revision({"aa41e9613256"},
  << AddColumn("static_user", "display_name", Text),
     Execute([static_user |-> {"username"}]), GiveValue("static_user", "display_name"),
     SetNull("static_user", "display_name", FALSE) >>,
  << DropColumn("static_user", "display_name") >>)

sf5e8b5dd3241 == Revision({"267b4c1bde2e"},
  << AddColumn("static_user", "settings", NotNull(ServerDefault(Column("jsonb")))) >>,
  << DropColumn("static_user", "settings") >>)

s3d75d1d9500b == Revision({"f5e8b5dd3241"},
  << CreateTable("static_feedback", [id_feedback |-> Id]
                   @@ Of(Text, {"user_agent", "application", "permalink", "text", "email"})) >>,
  << DropTable("static_feedback") >>)
=============================================================================

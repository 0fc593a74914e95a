------------------------------ MODULE DataModel ------------------------------
(***************************************************************************)
(* The tables that the classes of models/main.py and models/static.py         *)
(* declare, one definition per class: what the migrations have to arrive at.  *)
(* Texts, enumerations and encoded dictionaries are the same type to          *)
(* PostgreSQL.                                                                *)
(***************************************************************************)
EXTENDS Alembic

Required(names) == Of(NotNull(Text), names)
Optional(names) == Of(Text, names)

(* Association tables, whose rows go with those that they associate. *)
role_functionality    == CascadingLink("role", "functionality")
theme_functionality   == CascadingLink("theme", "functionality")
restricted_role_theme == CascadingLink("role", "theme")
role_ra               == CascadingLink("role", "restrictionarea")
layer_ra              == CascadingLink("layer", "restrictionarea")
interface_layer       == CascadingLink("interface", "layer")
interface_theme       == CascadingLink("interface", "theme")

FullTextSearch ==
  [id |-> Id, label |-> NotNull(Text), role_id |-> Cascade(ForeignKey("role")),
   interface_id |-> Cascade(ForeignKey("interface")), public |-> NotNull(Bool), from_theme |-> NotNull(Bool),
   ts |-> Column("tsvector"), the_geom |-> Column("geometry")]
  @@ Optional({"layer_name", "lang", "params", "actions"})

Functionality == [id |-> Id] @@ Required({"name", "value"}) @@ Optional({"description"})

Role == [id |-> Id, name |-> NotNull(Unique(Text)), description |-> Text, extent |-> Column("polygon")]

(* The classes of the tree: each table has the key of the table of its parent class. *)
TreeItem == [id |-> Id, description |-> Text] @@ Required({"type", "name"})

LayergroupTreeitem ==
  [id |-> Id, description |-> Text, treegroup_id |-> NotNull(ForeignKey("treegroup")),
   treeitem_id |-> NotNull(Cascade(ForeignKey("treeitem"))), ordering |-> NotNull(Number)]

TreeGroup  == [id |-> Cascade(Key("treeitem"))]
LayerGroup == [id |-> Cascade(Key("treegroup"))]

Theme == [id |-> Cascade(Key("treegroup")), ordering |-> NotNull(Number), public |-> NotNull(Bool),
          icon |-> Text]

Layer == [id |-> Cascade(Key("treeitem")), public |-> NotNull(Bool), geo_table |-> Text,
          exclude_properties |-> Text]

OGCServer ==
  [id |-> Id, name |-> NotNull(Unique(Text)), wfs_support |-> NotNull(Bool), is_single_tile |-> NotNull(Bool)]
  @@ Required({"url", "auth", "map_protocol", "query_auth", "query_protocol", "edit_auth", "type", "image_type"})
  @@ Optional({"description", "query_url", "edit_url", "edit_protocol", "url_wfs"})

LayerWMS ==
  [id |-> Cascade(Key("layer")), ogc_server_id |-> NotNull(ForeignKey("ogc_server")), valid |-> Bool]
  @@ Required({"layer", "time_mode", "time_widget"}) @@ Optional({"style", "invalid_reason"})

LayerWMTS == [id |-> Cascade(Key("layer"))] @@ Required({"url", "layer", "image_type"})
                                            @@ Optional({"style", "matrix_set"})
LayerCOG == [id |-> Key("layer"), url |-> NotNull(Text)]
LayerVectorTiles == [id |-> Key("layer"), style |-> NotNull(Text)] @@ Optional({"sql", "xyz"})

RestrictionArea == [id |-> Id, name |-> NotNull(Text), description |-> Text, readwrite |-> NotNull(Bool),
                    area |-> Indexed(Column("multipolygon"))]
Interface == [id |-> Id, name |-> NotNull(Text), description |-> Text]

Metadata == [id |-> Id, name |-> NotNull(Text), item_id |-> NotNull(Cascade(ForeignKey("treeitem")))]
            @@ Optional({"value", "description"})
Dimension == [id |-> Id, name |-> NotNull(Text), layer_id |-> NotNull(ForeignKey("layer"))]
             @@ Optional({"value", "field", "description"})

AbstractLog == [id |-> Id, date |-> NotNull(Zoned), element_id |-> NotNull(Number)]
               @@ Required({"action", "element_type", "element_name", "element_url_table", "username"})

-----------------------------------------------------------------------------
(* models/static.py.  Nothing ties user_role and settings_role_id to the roles, which are in another schema. *)
user_role == [user_id |-> Cascade(Key("static_user")), role_id |-> PrimaryKey(Number)]

User ==
  [id |-> Id, username |-> NotNull(Unique(Text)), email |-> Indexed(NotNull(Text)),
   tech_data |-> Column("hstore"), settings |-> NotNull(Column("jsonb")), settings_role_id |-> Number,
   last_login |-> Zoned, expire_on |-> Zoned, temp_password |-> Text]
  @@ Required({"type", "display_name", "password"})
  @@ Of(NotNull(Bool), {"is_password_changed", "deactivated"})

Shorturl == [id |-> Id, url |-> NotNull(Text), ref |-> NotNull(Unique(Text)), creator_email |-> Text,
             creation |-> NotNull(Time), last_hit |-> Time, nb_hits |-> NotNull(Number)]

OAuth2Client == [id |-> Id, client_id |-> NotNull(Unique(Text)), state_required |-> NotNull(Bool),
                 pkce_required |-> NotNull(Bool)] @@ Required({"secret", "redirect_uri"})

ClientAndUser == [client_id |-> NotNull(Cascade(ForeignKey("static_oauth2_client"))),
                  user_id |-> NotNull(Cascade(ForeignKey("static_user")))]

OAuth2BearerToken == [id |-> Id, expire_at |-> NotNull(Zoned), state |-> Text]
                     @@ Of(NotNull(Unique(Text)), {"access_token", "refresh_token"}) @@ ClientAndUser

OAuth2AuthorizationCode ==
  [id |-> Id, code |-> Unique(Text), redirect_uri |-> NotNull(Text), expire_at |-> NotNull(Zoned)]
  @@ Optional({"state", "challenge", "challenge_method"}) @@ ClientAndUser

Feedback == [id_feedback |-> Id] @@ Optional({"user_agent", "application", "permalink", "text", "email"})

-----------------------------------------------------------------------------
(* Base.metadata. *)
MetaData ==
  [tsearch |-> FullTextSearch, functionality |-> Functionality, role_functionality |-> role_functionality,
   theme_functionality |-> theme_functionality, role |-> Role, treeitem |-> TreeItem,
   layergroup_treeitem |-> LayergroupTreeitem, treegroup |-> TreeGroup, layergroup |-> LayerGroup,
   restricted_role_theme |-> restricted_role_theme, theme |-> Theme, layer |-> Layer, ogc_server |-> OGCServer,
   layer_wms |-> LayerWMS, layer_wmts |-> LayerWMTS, role_restrictionarea |-> role_ra,
   layer_restrictionarea |-> layer_ra, layer_cog |-> LayerCOG, layer_vectortiles |-> LayerVectorTiles,
   restrictionarea |-> RestrictionArea, interface_layer |-> interface_layer,
   interface_theme |-> interface_theme, interface |-> Interface, metadata |-> Metadata,
   dimension |-> Dimension, log |-> AbstractLog, static_user_role |-> user_role, static_user |-> User,
   static_shorturl |-> Shorturl, static_oauth2_client |-> OAuth2Client,
   static_oauth2_bearertoken |-> OAuth2BearerToken,
   static_oauth2_authorizationcode |-> OAuth2AuthorizationCode, static_log |-> AbstractLog,
   static_feedback |-> Feedback]

(* What the classes declare beside their columns: __table_args__. *)
TableArgs ==
  {UniqueOn("", "treeitem", {"type", "name"}),
   IndexOn("", "tsearch", {"ts", "public", "role_id", "interface_id", "lang"}), IndexOn("", "tsearch", {"ts"}),
   UniqueOn("", "static_oauth2_bearertoken", {"client_id", "user_id"}),
   UniqueOn("", "static_oauth2_authorizationcode", {"client_id", "user_id"})}

(* What alembic compares: types and nullability of columns, and constraints whatever their names. *)
Comparable(tables) == [t \in DOMAIN tables |->
                        [c \in DOMAIN tables[t] |-> [type |-> tables[t][c].type, null |-> tables[t][c].null]]]
Unnamed(constraints) == {[k EXCEPT !.name = ""] : k \in constraints}

DeclaredTables == Comparable(MetaData)
DeclaredConstraints ==
  Unnamed(TableArgs \cup UNION {ConstraintsOf(t, MetaData[t]) : t \in DOMAIN MetaData})
=============================================================================
